---- MODULE Spec2Model ----
(***************************************************************************)
(* Smart-HTTP git server (class GitServer): the request pipeline           *)
(*   route -> authenticate -> repository check / auto-create ->            *)
(*   acceptance gate (event emission) -> git subprocess -> streaming.      *)
(* One record per HTTP request holds the handler's local variables, the    *)
(* ServerResponse, the git subprocess and the request-body pipeline.       *)
(***************************************************************************)
EXTENDS Integers, Sequences, FiniteSets, TLC

\* ------------------------------------------------------------------ bounds
MaxReqs      == 2   \* request slots (only the slots in `clients` are used)
MaxListeners == 1   \* listeners registered on the emitter, all events together
MaxSyncCalls == 2   \* accept()/reject() calls the listeners make inline during one emission
MaxBody      == 2   \* pieces of text in an RPC request body
MaxOut       == 1   \* stdout chunks a git service subprocess writes
MaxErr       == 1   \* stderr chunks a git service subprocess writes
MaxStream    == 2   \* stdout chunks of a subprocess when its output is followed
MaxCloses    == 2   \* close() calls that emit an 'error' event
MaxSideband  == 60  \* every string length up to this one is given to packSideband
MaxTicks     == 12  \* ticks of 100 ms followed after a gate's timers are set

\* --------------------------------------------------------- program values
GateEvents == {"info", "fetch", "push", "head"}
Events     == GateEvents \cup {"error", "tag"}

RejectMsgs     == {"rejected", "nope"}
DefaultMessage == "rejected"

\* the argument of info.reject(): a message, or none
Omitted    == "(omitted)"
RejectArgs == {Omitted, "nope"}

\* a call on the gate object handed to the listeners
Calls == {[op |-> "accept", msg |-> ""]} \cup
         {[op |-> "reject", msg |-> m] : m \in RejectArgs}

RECURSIVE SeqsUpTo(_, _)
SeqsUpTo(S, n) ==
  IF n = 0 THEN {<<>>}
  ELSE LET shorter == SeqsUpTo(S, n - 1)
       IN  shorter \cup {Append(s, x) : s \in shorter, x \in S}

RECURSIVE Flatten(_)
Flatten(ss) == IF ss = <<>> THEN <<>> ELSE Head(ss) \o Flatten(Tail(ss))

IsPrefix(s, t) == Len(s) <= Len(t) /\ SubSeq(t, 1, Len(s)) = s

Has(tr, x) == \E i \in 1..Len(tr) : tr[i] = x

\* index of the first occurrence of x in tr, 0 when absent
First(tr, x) ==
  IF Has(tr, x) THEN CHOOSE i \in 1..Len(tr) :
                       tr[i] = x /\ \A j \in 1..(i - 1) : tr[j] # x
  ELSE 0

Count(tr, x) == Cardinality({i \in 1..Len(tr) : tr[i] = x})

\* ------------------------------------------------------------------ paths
\* A path is the sequence of its segments below "/".
repositoryDirectory == <<"srv", "git">>

\* repository names the route regex can capture (non-empty, may hold "/")
Names == { <<"r1">>, <<"r2">>, <<"..", "x">> }

\* path.join + path.normalize on an absolute path: "." is dropped, ".."
\* removes the segment before it (and is dropped at the root)
RECURSIVE NormalizeFrom(_, _)
NormalizeFrom(done, rest) ==
  IF rest = <<>> THEN done
  ELSE IF Head(rest) = "." THEN NormalizeFrom(done, Tail(rest))
  ELSE IF Head(rest) = ".."
    THEN NormalizeFrom(IF done = <<>> THEN <<>>
                       ELSE SubSeq(done, 1, Len(done) - 1), Tail(rest))
  ELSE NormalizeFrom(Append(done, Head(rest)), Tail(rest))

normalize(p) == NormalizeFrom(<<>>, p)

join(a, b) == a \o b

RepositoryPath(name) == normalize(join(repositoryDirectory, name))

InsideRoot(p) == IsPrefix(repositoryDirectory, p) /\ p # repositoryDirectory

\* ----------------------------------------------------------------- routes
\* A request pathname is the sequence of its non-empty segments.
Actions == {"info/refs", "git-upload-pack", "git-receive-pack", "HEAD"}

ActionSegs(a) == IF a = "info/refs" THEN <<"info", "refs">> ELSE <<a>>

\* the action as the text pieces `replace('git-', '')` works on
ActionPieces(a) == CASE a = "git-upload-pack"  -> <<"git-", "upload-pack">>
                     [] a = "git-receive-pack" -> <<"git-", "receive-pack">>
                     [] OTHER                  -> <<a>>

RpcActions == {"git-upload-pack", "git-receive-pack"}

NoRoute == [name |-> <<>>, action |-> "none"]

\* requestPath.match(/^\/(.+?)\/(info\/refs|git-(?:upload|receive)-pack|HEAD)$/)
\* the lazy group takes the shortest name of at least k segments for which
\* the rest of the path is exactly one of the actions
RECURSIVE MatchFrom(_, _)
MatchFrom(url, k) ==
  IF k >= Len(url) THEN NoRoute
  ELSE LET rest == SubSeq(url, k + 1, Len(url))
       IN  IF \E a \in Actions : ActionSegs(a) = rest
           THEN [name   |-> SubSeq(url, 1, k),
                 action |-> CHOOSE a \in Actions : ActionSegs(a) = rest]
           ELSE MatchFrom(url, k + 1)

\* mutant: the name group is `.*?` and may be empty
Match_AllowsEmptyName(url) == MatchFrom(url, 0)

\* `.+?`: the name is not empty
Match(url) == MatchFrom(url, 1)

\* pathnames the route regex rejects
NoMatchUrls == { <<>>, <<"r1">>, <<"HEAD">>, <<"info", "refs">>,
                 <<"r1", "git-bogus-pack">>, <<"r1", "HEAD", "x">> }

Urls == {name \o ActionSegs(a) : name \in Names, a \in Actions} \cup NoMatchUrls

\* request methods
Methods == {"GET", "POST"}

\* mutant: the RPC route is for POST requests only
handleRequest_RpcIsPostOnly(method, url) ==
  LET action == Match(url).action
  IN  CASE action = "none"      -> "nomatch"
        [] action = "info/refs" -> "info"
        [] action = "HEAD"      -> "head"
        [] OTHER                -> IF method = "POST" THEN "rpc" ELSE "nomatch"

\* handleRequest: the handler the request is given to, "nomatch" for the 404
handleRequest(method, url) ==
  LET action == Match(url).action
  IN  CASE action = "none"      -> "nomatch"
        [] action = "info/refs" -> "info"
        [] action = "HEAD"      -> "head"
        [] OTHER                -> "rpc"

\* --------------------------------------------------------------- services
\* the service query parameter, as the text pieces it is made of
ServiceParams == { <<"git-", "upload-pack">>, <<"git-", "receive-pack">>,
                   <<"upload-pack">>, <<"git-", "bogus">>, <<>> }
NoParam == <<"(absent)">>

\* service.replace(/^git-/, '')
StripGit(s) == IF s # <<>> /\ Head(s) = "git-" THEN Tail(s) ELSE s

validServices == { <<"upload-pack">>, <<"receive-pack">> }

getOperationType(gitServiceName) ==
  IF gitServiceName = "receive-pack" THEN "push" ELSE "fetch"

\* ---------------------------------------------------------------- pkt-line
HexChars == <<"0", "1", "2", "3", "4", "5", "6", "7",
              "8", "9", "a", "b", "c", "d", "e", "f">>

\* Number.prototype.toString(16)
RECURSIVE ToHex(_)
ToHex(n) == IF n < 16 THEN <<HexChars[n + 1]>>
            ELSE Append(ToHex(n \div 16), HexChars[(n % 16) + 1])

\* String.prototype.padStart(w, '0')
RECURSIVE PadStart(_, _)
PadStart(s, w) == IF Len(s) >= w THEN s ELSE PadStart(<<"0">> \o s, w)

StrLen(s) == CASE s = "upload-pack"    -> 11
               [] s = "receive-pack"   -> 12
               [] s = "# service=git-" -> 14
               [] s = "\n"             -> 1

\* mutant: the flush packet "0000" is not written
Banner_WithoutFlush(gitServiceName) ==
  LET packet == <<"# service=git-", gitServiceName, "\n">>
      plen   == StrLen(packet[1]) + StrLen(packet[2]) + StrLen(packet[3])
      length == PadStart(ToHex(plen + 4), 4)
  IN  length \o packet

\* `# service=git-${gitServiceName}\n` with its 4-hex-digit length and "0000"
Banner(gitServiceName) ==
  LET packet == <<"# service=git-", gitServiceName, "\n">>
      plen   == StrLen(packet[1]) + StrLen(packet[2]) + StrLen(packet[3])
      length == PadStart(ToHex(plen + 4), 4)
  IN  length \o packet \o <<"0000">>

\* a string of n characters
Repeat(ch, n) == [i \in 1..n |-> ch]

\* mutant: the length is not padded
packSideband_Unpadded(s) ==
  LET n == ToHex(4 + Len(s))
  IN  n \o s

\* util packSideband(s): '0'.repeat(4 - n.length) + n + s; repeat() throws a
\* RangeError for a negative count
packSideband(s) ==
  LET n == ToHex(4 + Len(s))
  IN  IF 4 - Len(n) < 0 THEN <<"RangeError">>
      ELSE LET padded == Repeat("0", 4 - Len(n)) \o n
           IN  padded \o s

\* ------------------------------------------------------ the ServerResponse
\* response.statusCode = s (an assignment: Node accepts it at any time)
SetStatus(q, s) == [q EXCEPT !.status = s]

\* response.setHeader(n, v)
SetHeader(q, n, v) ==
  [q EXCEPT !.headers = {h \in @ : h[1] # n} \cup {<<n, v>>}]

\* the implicit writeHead of the first write()/end()
SendHeaders(q) ==
  IF q.headersSent THEN q
  ELSE [q EXCEPT !.headersSent = TRUE, !.sentStatus = q.status,
                 !.trace = Append(@, "headers")]

\* response.write(data); a write after end() is dropped
Write(q, data) ==
  IF q.ended THEN q
  ELSE [SendHeaders(q) EXCEPT !.body = @ \o data]

\* response.end(data); ending an ended response changes nothing
End(q, data) ==
  IF q.ended THEN q
  ELSE [SendHeaders(q) EXCEPT !.body = @ \o data, !.ended = TRUE]

\* response.end(data) called by a handler path (counted in endCalls)
HandlerEnd(q, data) == [End(q, data) EXCEPT !.endCalls = @ + 1]

setNoCacheHeaders(q) ==
  SetHeader(SetHeader(q, "Cache-Control",
                      <<"no-cache, max-age=0, must-revalidate">>),
            "Expires", <<"Fri, 01 Jan 1980 00:00:00 GMT">>)

Log(q, x) == [q EXCEPT !.trace = Append(@, x)]

\* ------------------------------------------------------------------ state
VARIABLES
  timedReq,    \* src/src/gitserver.ts: a handler that waits for its gate on timers
  serviceObj,  \* src/src/service.ts: a Service object and its execute() promise
  call,        \* the utility function applied last: name, argument, result
  serverErrors,\* 'error' events emitted outside of any request (close())
  load,        \* the workload: request slots in use, body size, listener cap,
               \* events the application listens to, stdout/stderr chunk caps
  options,     \* GitServerOptions: autoCreate, authenticate configured or not
  server,      \* "none" before listen(), then "listening"
  listeners,   \* EventEmitter registry: per event the on() and once() listeners
  dirs,        \* paths fs.access() succeeds on
  bare,        \* paths on which `git init --bare` succeeded
  req          \* per request: handler locals, response, subprocess, body pipeline

vars == <<timedReq, serviceObj, call, serverErrors, load, options, server, listeners, dirs, bare, req>>

NoCall == [fn |-> "none", arg |-> <<>>, result |-> <<>>]

\* a handler of src/src/gitserver.ts before it is called
IdleTimed ==
  [ pc |-> "idle",            \* "waiting" from the emit on, then "resolved"
    handler |-> "none",       \* "handleInfoRefs" | "handleService"
    accepted |-> FALSE, rejected |-> FALSE,
    handed |-> FALSE,         \* some listener received the info object
    decidedBy |-> "none",     \* "accept" | "reject" | "timer"
    decidedAt |-> 0,          \* the tick of the decision
    autoAccepts |-> 0,        \* handleAccept() calls made by the timeout
    status |-> 200, ended |-> FALSE, body |-> <<>>,
    spawned |-> 0,
    now |-> 0,                \* ticks of 100 ms since the timers were set
    timeoutId |-> FALSE,      \* the setTimeout is pending
    checkDone |-> FALSE,      \* the setInterval is running
    timeoutDue |-> FALSE, intervalDue |-> FALSE ]

\* a Service before execute()
NewService ==
  [ pc |-> "new",             \* "executed" once execute() has returned its promise
    accepted |-> FALSE, rejected |-> FALSE,
    handed |-> FALSE,
    decidedBy |-> "none",     \* "accept" | "reject" | "timer"
    decidedIn |-> "none",     \* "emit" (inside the listener) | "later"
    onAccepted |-> TRUE, onRejected |-> TRUE,  \* once() listeners of the constructor
    onEnd |-> FALSE, onError |-> FALSE,        \* once() listeners of the promise
    tick |-> FALSE,           \* the process.nextTick callback is pending
    timeoutId |-> FALSE,
    spawned |-> 0, proc |-> "none", exit |-> -1,
    outEnded |-> FALSE,       \* the stdout of the git process has ended
    status |-> 200, ended |-> FALSE, body |-> <<>>,
    settled |-> "pending",    \* "resolved" | "rejected"
    uncaught |-> FALSE ]      \* an 'error' event was emitted with no listener

Reqs == 1..MaxReqs

OutToks == <<"stdout#1", "stdout#2", "stdout#3", "stdout#4">>

IdleReq ==
  [ pc |-> "idle",            \* position of the handler
    method |-> "",            \* request method
    url |-> <<>>,             \* request pathname
    route |-> "none",         \* "info" | "rpc" | "head" | "nomatch"
    name |-> <<>>,            \* repositoryName
    path |-> <<>>,            \* repositoryPath
    service |-> <<>>,         \* the service query parameter (info/refs)
    svc |-> "none",           \* gitServiceName
    accepted |-> FALSE, rejected |-> FALSE,
    handed |-> FALSE,         \* some listener received the gate object
    decidedBy |-> "none",     \* "accept" | "reject" | "auto": the first decision
    firstArg |-> "",          \* argument of the reject() that decided the gate
    laterCall |-> FALSE,      \* accept()/reject() was called on a decided gate
    heldAtAccept |-> 0,       \* body bytes bufferedStream held when accepted
    atEmit |-> <<0, 0>>,      \* listenerCount(info), listenerCount(type) when emitted
    status |-> 200, headers |-> {}, headersSent |-> FALSE, sentStatus |-> 0,
    body |-> <<>>, ended |-> FALSE, endCalls |-> 0,
    spawned |-> 0,            \* git service subprocesses spawned
    proc |-> "none",          \* "running" | "errored" | "closed"
    exit |-> -1, out |-> 0, outEnded |-> FALSE, errChunks |-> 0,
    awaiting |-> FALSE,       \* handleAccept of info/refs is at `await subprocess`
    payload |-> <<>>,         \* the request body
    bodyLen |-> 0, sent |-> 0,\* request body: size, pieces already on the wire
    sniffing |-> FALSE,       \* the tag detection listens to request 'data'
    tags |-> <<>>,            \* the tagInfo of every 'tag' event emitted
    tagHanded |-> FALSE,      \* some listener received a tagInfo
    tagCalls |-> <<>>,        \* accept()/reject() calls made on a tagInfo
    reqbuf |-> <<>>,          \* chunks received, not yet emitted as 'data'
    piped |-> FALSE,          \* request.pipe(bufferedStream) done
    pass |-> <<>>,            \* chunks held by bufferedStream
    passEnded |-> FALSE, resumed |-> FALSE,
    stdin |-> <<>>, stdinEnded |-> FALSE,
    errs |-> 0,               \* 'error' events emitted for this request
    trace |-> <<>> ]          \* the steps of the request, in order

Gate(q) == IF q.accepted THEN "ACCEPTED"
           ELSE IF q.rejected THEN "REJECTED" ELSE "PENDING"

BodyOf(q) == q.payload

\* ---------------------------------------------- the body of a push request
\* object ids as send-pack writes them; ZeroId stands for "no object"
ZeroId == "0000000000000000000000000000000000000000"
IdA    == "1111111111111111111111111111111111111111"
IdB    == "2222222222222222222222222222222222222222"

\* a ref update command `<old> <new> <ref>` of the command list
Commands ==
  [ create |-> [old |-> ZeroId, new |-> IdA, ref |-> <<"refs/tags/", "v1.0.0">>],
    delete |-> [old |-> IdA, new |-> ZeroId, ref |-> <<"refs/tags/", "v1.0.0">>],
    branch |-> [old |-> IdA, new |-> IdB, ref |-> <<"refs/heads/", "main">>] ]

\* the text of a command, whole (part 0) or cut in two (parts 1 and 2)
Piece(c, p) == [cmd |-> c, part |-> p]

\* a piece of the packfile that follows the command list: an object stored
\* uncompressed whose content is the text of command c
InPack(c) == [cmd |-> c, part |-> 3]

\* the pieces of a body that belong to its command list
InCommandList(piece) == piece.part \in {0, 1, 2}

\* request bodies: nothing, one command, a command cut in two, two commands,
\* a command followed by a packfile
Bodies ==
  { <<>>,
    <<Piece("create", 0)>>,
    <<Piece("delete", 0)>>,
    <<Piece("create", 1), Piece("create", 2)>>,
    <<Piece("branch", 0), Piece("create", 0)>>,
    <<Piece("branch", 0), InPack("create")>> }

\* the text up to position i ends a complete command
Completes(text, i) ==
  \/ text[i].part \in {0, 3}
  \/ /\ text[i].part = 2 /\ i > 1
     /\ text[i - 1] = Piece(text[i].cmd, 1)

\* the tag detection on the text of one 'data' chunk: a tagInfo for every
\* match of /([0-9a-fA-F]+) ([0-9a-fA-F]+) refs\/tags\/(.*?)(?:[ ]|00)/g
\* with oldCommit && newCommit && version
RECURSIVE SniffFrom(_, _, _)
SniffFrom(repo, text, i) ==
  IF i > Len(text) THEN <<>>
  ELSE LET c == Commands[text[i].cmd]
           hit == /\ Completes(text, i)
                  /\ c.ref[1] = "refs/tags/"
                  /\ c.old # "" /\ c.new # "" /\ c.ref[2] # ""
       IN  (IF hit THEN << [repo |-> repo, commit |-> c.new,
                            version |-> c.ref[2]] >>
            ELSE <<>>) \o SniffFrom(repo, text, i + 1)

Sniff(repo, text) == SniffFrom(repo, text, 1)

\* --------------------------------------------------------------- emitter
listenerCount(L, e) == L[e].on + L[e].once

TotalListeners(L) ==
  LET RECURSIVE Sum(_)
      Sum(S) == IF S = {} THEN 0
                ELSE LET e == CHOOSE x \in S : TRUE
                     IN  listenerCount(L, e) + Sum(S \ {e})
  IN  Sum(Events)

\* registry after emit(e): the once() listeners of e have removed themselves
AfterEmit(L, e) == [L EXCEPT ![e].once = 0]

\* emitError called n times in a row: 'error' events delivered, registry after
ErrorsDelivered(L, n) ==
  IF n = 0 THEN 0
  ELSE IF L["error"].on > 0 THEN n
  ELSE IF L["error"].once > 0 THEN 1 ELSE 0

emitError(L, n) == IF n > 0 /\ listenerCount(L, "error") > 0
                   THEN AfterEmit(L, "error") ELSE L

WithErrors(q, L, n) == [q EXCEPT !.errs = @ + ErrorsDelivered(L, n)]

\* ------------------------------------------------------ acceptance gates
SpawnService(q) ==
  [Log(q, "spawn") EXCEPT !.spawned = @ + 1, !.proc = "running"]

\* mutant: the banner is not written before the subprocess is spawned
handleAcceptInfoRefs_SpawnsFirst(q) ==
  IF q.accepted \/ q.rejected THEN q
  ELSE LET a == Log([q EXCEPT !.accepted = TRUE], "accepted")
           b == SetHeader(SetStatus(a, 200), "Content-Type",
                          <<"application/x-git-", q.svc, "-advertisement">>)
       IN  [SpawnService(setNoCacheHeaders(b)) EXCEPT !.awaiting = TRUE]

\* handleInfoRefs: handleAccept up to `await subprocess`
handleAcceptInfoRefs(q) ==
  IF q.accepted \/ q.rejected THEN q
  ELSE LET a == Log([q EXCEPT !.accepted = TRUE], "accepted")
           b == SetHeader(SetStatus(a, 200), "Content-Type",
                          <<"application/x-git-", q.svc, "-advertisement">>)
           c == Write(setNoCacheHeaders(b), Banner(q.svc))
       IN  [SpawnService(c) EXCEPT !.awaiting = TRUE]

\* mutant: no `if (accepted || rejected) return`
handleRejectInfoRefs_NoGuard(q, message) ==
  LET a == Log([q EXCEPT !.rejected = TRUE], "rejected")
      b == SetHeader(SetStatus(a, 403), "Content-Type", <<"text/plain">>)
  IN  HandlerEnd(b, <<message>>)

\* handleInfoRefs: handleReject
handleRejectInfoRefs(q, message) ==
  IF q.accepted \/ q.rejected THEN q
  ELSE LET a == Log([q EXCEPT !.rejected = TRUE], "rejected")
           b == SetHeader(SetStatus(a, 403), "Content-Type", <<"text/plain">>)
       IN  HandlerEnd(b, <<message>>)

\* mutant: the guard tests `accepted` only
handleAcceptService_NoRejectedCheck(q) ==
  IF q.accepted THEN q
  ELSE LET a == Log([q EXCEPT !.accepted = TRUE], "accepted")
           b == SetHeader(SetStatus(a, 200), "Content-Type",
                          <<"application/x-git-", q.svc, "-result">>)
           c == SpawnService(setNoCacheHeaders(b))
       IN  [c EXCEPT !.resumed = TRUE, !.heldAtAccept = Len(Flatten(q.pass)),
                     !.sniffing = (getOperationType(q.svc) = "push")]

\* handleService: handleAccept
handleAcceptService(q) ==
  IF q.accepted \/ q.rejected THEN q
  ELSE LET a == Log([q EXCEPT !.accepted = TRUE], "accepted")
           b == SetHeader(SetStatus(a, 200), "Content-Type",
                          <<"application/x-git-", q.svc, "-result">>)
           c == SpawnService(setNoCacheHeaders(b))
       IN  [c EXCEPT !.resumed = TRUE, !.heldAtAccept = Len(Flatten(q.pass)),
                     !.sniffing = (getOperationType(q.svc) = "push")]

\* mutant: handleService rejects with the status of the other handlers
handleRejectService_Answers403(q, message) ==
  IF q.accepted \/ q.rejected THEN q
  ELSE LET a == Log([q EXCEPT !.rejected = TRUE], "rejected")
           b == SetHeader(SetStatus(a, 403), "Content-Type", <<"text/plain">>)
       IN  HandlerEnd(b, <<message>>)

\* handleService: handleReject
handleRejectService(q, message) ==
  IF q.accepted \/ q.rejected THEN q
  ELSE LET a == Log([q EXCEPT !.rejected = TRUE], "rejected")
           b == SetHeader(SetStatus(a, 500), "Content-Type", <<"text/plain">>)
       IN  HandlerEnd(b, <<message>>)

\* handleHead: handleAccept
handleAcceptHead(q) ==
  IF q.accepted \/ q.rejected THEN q
  ELSE LET a == Log([q EXCEPT !.accepted = TRUE], "accepted")
           b == SetHeader(SetStatus(a, 200), "Content-Type", <<"text/plain">>)
       IN  HandlerEnd(setNoCacheHeaders(b), <<>>)

\* handleHead: handleReject
handleRejectHead(q, message) ==
  IF q.accepted \/ q.rejected THEN q
  ELSE LET a == Log([q EXCEPT !.rejected = TRUE], "rejected")
           b == SetHeader(SetStatus(a, 403), "Content-Type", <<"text/plain">>)
       IN  HandlerEnd(b, <<message>>)

\* info.accept() / info.reject(message) of the gate object of request q
InfoAccept(q) ==
  CASE q.route = "info" -> handleAcceptInfoRefs(q)
    [] q.route = "rpc"  -> handleAcceptService(q)
    [] q.route = "head" -> handleAcceptHead(q)

\* reject: (message = 'rejected') => handleReject(message)
InfoReject(q, arg) ==
  LET message == IF arg = Omitted THEN DefaultMessage ELSE arg
  IN  CASE q.route = "info" -> handleRejectInfoRefs(q, message)
        [] q.route = "rpc"  -> handleRejectService(q, message)
        [] q.route = "head" -> handleRejectHead(q, message)

\* one call made by a listener; decidedBy remembers who moved the gate
ApplyCall(q, c) ==
  LET n == IF c.op = "accept" THEN InfoAccept(q) ELSE InfoReject(q, c.msg)
  IN  IF Gate(q) # "PENDING" THEN [n EXCEPT !.laterCall = TRUE]
      ELSE IF Gate(n) # "PENDING"
        THEN [n EXCEPT !.decidedBy = c.op, !.firstArg = c.msg]
      ELSE n

RECURSIVE ApplyCalls(_, _)
ApplyCalls(q, cs) ==
  IF cs = <<>> THEN q ELSE ApplyCalls(ApplyCall(q, Head(cs)), Tail(cs))

\* the handler's own handleAccept() when no listener is left
AutoAccept(q) ==
  LET n == InfoAccept(q)
  IN  IF Gate(q) = "PENDING" /\ Gate(n) # "PENDING"
      THEN [n EXCEPT !.decidedBy = "auto"] ELSE n

\* ---------------------------------------------------------------- set-up
\* the root directory holds one repository, r1
InitialDirs == {<<"srv">>, repositoryDirectory, RepositoryPath(<<"r1">>)}

Init ==
  /\ timedReq = IdleTimed
  /\ serviceObj = NewService
  /\ call = NoCall
  /\ serverErrors = 0
  /\ load = [clients |-> {1}, methods |-> {"GET"}, urls |-> Urls, bodyCap |-> 0,
             regCap |-> MaxListeners,
             events |-> GateEvents, outCap |-> MaxOut, errCap |-> 0]
  /\ options \in [autoCreate : BOOLEAN, authenticate : BOOLEAN]
  /\ server = "none"
  /\ listeners = [e \in Events |-> [on |-> 0, once |-> 0]]
  /\ dirs = InitialDirs
  /\ bare = {RepositoryPath(<<"r1">>)}
  /\ req = [r \in Reqs |-> IdleReq]

\* GitServer.on(event, listener)
On(e) ==
  /\ server = "none"
  /\ e \in load.events
  /\ TotalListeners(listeners) < load.regCap
  /\ listeners' = [listeners EXCEPT ![e].on = @ + 1]
  /\ UNCHANGED <<timedReq, serviceObj, call, serverErrors, load, options, server, dirs, bare, req>>

\* GitServer.once(event, listener)
Once(e) ==
  /\ server = "none"
  /\ e \in load.events
  /\ TotalListeners(listeners) < load.regCap
  /\ listeners' = [listeners EXCEPT ![e].once = @ + 1]
  /\ UNCHANGED <<timedReq, serviceObj, call, serverErrors, load, options, server, dirs, bare, req>>

\* GitServer.listen(port)
Listen ==
  /\ server = "none"
  /\ server' = "listening"
  /\ UNCHANGED <<timedReq, serviceObj, call, serverErrors, load, options, listeners, dirs, bare, req>>

\* mutant: close() reports an error whether or not listen() was called
Close_AlwaysReports ==
  /\ serverErrors < MaxCloses
  /\ serverErrors' = serverErrors + ErrorsDelivered(listeners, 1)
  /\ listeners' = emitError(listeners, 1)
  /\ server' = IF server = "none" THEN "none" ELSE "closed"
  /\ UNCHANGED <<timedReq, serviceObj, call, load, options, dirs, bare, req>>

\* GitServer.close(): server.close() when listen() created a server,
\* emitError(new Error('Server is not running')) otherwise
Close ==
  /\ serverErrors < MaxCloses
  /\ IF server = "none"
     THEN /\ serverErrors' = serverErrors + ErrorsDelivered(listeners, 1)
          /\ listeners' = emitError(listeners, 1)
          /\ UNCHANGED server
     ELSE /\ server' = "closed"
          /\ UNCHANGED <<serverErrors, listeners>>
  /\ UNCHANGED <<timedReq, serviceObj, call, load, options, dirs, bare, req>>

\* ---------------------------------------------------------- handleRequest
CanArrive(r) ==
  server = "listening" /\ r \in load.clients /\ req[r].pc = "idle"

\* no route matches: 404 Not Found
ArriveNoMatch(r, m, u) ==
  /\ CanArrive(r)
  /\ m \in load.methods /\ u \in load.urls
  /\ handleRequest(m, u) = "nomatch"
  /\ req' = [req EXCEPT ![r] =
       [HandlerEnd(SetStatus([@ EXCEPT !.method = m, !.url = u, !.route = "nomatch"], 404),
                   <<"Not Found">>) EXCEPT !.pc = "returned"]]
  /\ UNCHANGED <<timedReq, serviceObj, call, serverErrors, load, options, server, listeners, dirs, bare>>

\* mutant: handleHead begins with `await this.authenticate(...)`
ArriveHead_Authenticates(r, m, u) ==
  /\ CanArrive(r)
  /\ m \in load.methods /\ u \in load.urls
  /\ handleRequest(m, u) = "head"
  /\ req' = [req EXCEPT ![r] =
       [@ EXCEPT !.method = m, !.url = u, !.route = "head", !.name = Match(u).name,
                 !.path = RepositoryPath(Match(u).name), !.pc = "auth"]]
  /\ UNCHANGED <<timedReq, serviceObj, call, serverErrors, load, options, server, listeners, dirs, bare>>

\* /<name>/HEAD: handleHead up to `await fs.access`
ArriveHead(r, m, u) ==
  /\ CanArrive(r)
  /\ m \in load.methods /\ u \in load.urls
  /\ handleRequest(m, u) = "head"
  /\ req' = [req EXCEPT ![r] =
       [@ EXCEPT !.method = m, !.url = u, !.route = "head", !.name = Match(u).name,
                 !.path = RepositoryPath(Match(u).name), !.pc = "access"]]
  /\ UNCHANGED <<timedReq, serviceObj, call, serverErrors, load, options, server, listeners, dirs, bare>>

\* /<name>/info/refs?service=sp: handleInfoRefs up to `await authenticate`
ArriveInfoRefs(r, m, u, sp) ==
  /\ CanArrive(r)
  /\ m \in load.methods /\ u \in load.urls
  /\ handleRequest(m, u) = "info"
  /\ LET q0 == [req[r] EXCEPT !.method = m, !.url = u, !.route = "info", !.service = sp,
                              !.name = Match(u).name,
                              !.path = RepositoryPath(Match(u).name)]
         gitServiceName == StripGit(sp)
         bad(text) ==
           [HandlerEnd(SetHeader(SetStatus(WithErrors(q0, listeners, 1), 400),
                                 "Content-Type", <<"text/plain">>), <<text>>)
              EXCEPT !.pc = "returned"]
     IN  IF sp = NoParam \/ sp = <<>>
         THEN /\ req' = [req EXCEPT ![r] = bad("service parameter required")]
              /\ listeners' = emitError(listeners, 1)
         ELSE IF gitServiceName \notin validServices
         THEN /\ req' = [req EXCEPT ![r] = bad("Invalid service")]
              /\ listeners' = emitError(listeners, 1)
         ELSE /\ req' = [req EXCEPT ![r] =
                   [q0 EXCEPT !.svc = gitServiceName[1], !.pc = "auth"]]
              /\ UNCHANGED listeners
  /\ UNCHANGED <<timedReq, serviceObj, call, serverErrors, load, options, server, dirs, bare>>

\* /<name>/git-<svc>: handleService up to `await authenticate`
ArriveService(r, m, u, b) ==
  /\ CanArrive(r)
  /\ m \in load.methods /\ u \in load.urls
  /\ handleRequest(m, u) = "rpc"
  /\ Len(b) <= load.bodyCap
  /\ req' = [req EXCEPT ![r] =
       [@ EXCEPT !.method = m, !.url = u, !.route = "rpc", !.name = Match(u).name,
                 !.path = RepositoryPath(Match(u).name),
                 !.svc = StripGit(ActionPieces(Match(u).action))[1],
                 !.payload = b, !.bodyLen = Len(b), !.pc = "auth"]]
  /\ UNCHANGED <<timedReq, serviceObj, call, serverErrors, load, options, server, listeners, dirs, bare>>

\* ----------------------------------------------------------- authenticate
\* the Authorization header as authHeader.split(' ') sees it; none when absent
NoHeader    == <<>>
AuthHeaders == { NoHeader, <<"Basic", "dXNlcjpwYXNz">>,
                 <<"Bearer", "dXNlcjpwYXNz">>, <<"Basic">> }

\* Buffer.from(credentials, 'base64').toString(), for the credentials used
Base64Inputs == {"dXNlcjpwYXNz", "dTpwOnE=", "dTo6", "dXNlcg==", "OnA="}

Base64Decode(c) ==
  CASE c = "dXNlcjpwYXNz" -> <<"u", "s", "e", "r", ":", "p", "a", "s", "s">>
    [] c = "dTpwOnE="     -> <<"u", ":", "p", ":", "q">>
    [] c = "dTo6"         -> <<"u", ":", ":">>
    [] c = "dXNlcg=="     -> <<"u", "s", "e", "r">>
    [] c = "OnA="         -> <<":", "p">>

\* String.prototype.split(sep): the pieces of s between the separators
RECURSIVE SplitFrom(_, _, _)
SplitFrom(piece, rest, sep) ==
  IF rest = <<>> THEN <<piece>>
  ELSE IF Head(rest) = sep THEN <<piece>> \o SplitFrom(<<>>, Tail(rest), sep)
  ELSE SplitFrom(Append(piece, Head(rest)), Tail(rest), sep)

Split(s, sep) == SplitFrom(<<>>, s, sep)

Undefined == <<"(undefined)">>

\* const [username, password] = decoded.split(':')
Credentials(decoded) ==
  LET parts == Split(decoded, ":")
  IN  [username |-> parts[1],
       password |-> IF Len(parts) >= 2 THEN parts[2] ELSE Undefined]

\* parseBasicAuth: the credentials are used only when the header has the
\* type "Basic" and a credentials part; otherwise an 'error' event is emitted
\* and the authenticator gets undefined username and password
parseBasicAuth(h) ==
  LET none == [credentials |-> FALSE, errors |-> 1,
               username |-> Undefined, password |-> Undefined]
  IN  IF h = NoHeader THEN none
      ELSE LET type        == h[1]
               credentials == IF Len(h) >= 2 THEN h[2] ELSE ""
           IN  IF type # "Basic" \/ credentials = "" THEN none
               ELSE LET c == Credentials(Base64Decode(credentials))
                    IN  [credentials |-> TRUE, errors |-> 0,
                         username |-> c.username, password |-> c.password]

\* the header is present and parseBasicAuth refuses it
Malformed(h) == h # NoHeader /\ ~parseBasicAuth(h).credentials

LogHeader(q, h) == IF Malformed(h) THEN Log(q, "hdr_malformed") ELSE q

\* mutant: authenticate() rethrows without setting WWW-Authenticate
OnAuthFailure_NoChallenge(q) ==
  [HandlerEnd(
     SetHeader(SetStatus(Log(q, "auth_fail"), 401),
               "Content-Type", <<"text/plain">>),
     <<"Authentication failed">>)
   EXCEPT !.pc = "returned"]

\* the authenticator failed: authenticate() sets WWW-Authenticate and
\* rethrows, the handler answers 401 and returns
OnAuthFailure(q) ==
  [HandlerEnd(
     SetHeader(
       SetStatus(
         SetHeader(Log(q, "auth_fail"),
                   "WWW-Authenticate", <<"Basic realm=\"Git Server\"">>), 401),
       "Content-Type", <<"text/plain">>),
     <<"Authentication failed">>)
   EXCEPT !.pc = "returned"]

\* mutant: handleService goes on without calling authenticate()
Authenticate_SkipsService(r, hdr, ok) ==
  /\ req[r].pc = "auth"
  /\ IF ~options.authenticate \/ req[r].route = "rpc"
     THEN /\ req' = [req EXCEPT ![r].pc = "access"]
          /\ UNCHANGED listeners
     ELSE LET parseErrs == parseBasicAuth(hdr).errors
              nerr == parseErrs + (IF ok THEN 0 ELSE 1)
              q0 == WithErrors(LogHeader(req[r], hdr), listeners, nerr)
          IN  /\ listeners' = emitError(listeners, nerr)
              /\ IF ok
                 THEN req' = [req EXCEPT ![r] =
                        [Log(q0, "auth_ok") EXCEPT !.pc = "access"]]
                 ELSE req' = [req EXCEPT ![r] = OnAuthFailure(q0)]
  /\ UNCHANGED <<timedReq, serviceObj, call, serverErrors, load, options, server, dirs, bare>>

\* parseBasicAuth + options.authenticate; hdr is the Authorization header,
\* ok the authenticator's verdict (it throws or rejects when ~ok)
Authenticate(r, hdr, ok) ==
  /\ req[r].pc = "auth"
  /\ IF ~options.authenticate
     THEN /\ req' = [req EXCEPT ![r].pc = "access"]
          /\ UNCHANGED listeners
     ELSE LET parseErrs == parseBasicAuth(hdr).errors
              nerr == parseErrs + (IF ok THEN 0 ELSE 1)
              q0 == WithErrors(LogHeader(req[r], hdr), listeners, nerr)
          IN  /\ listeners' = emitError(listeners, nerr)
              /\ IF ok
                 THEN req' = [req EXCEPT ![r] =
                        [Log(q0, "auth_ok") EXCEPT !.pc = "access"]]
                 ELSE req' = [req EXCEPT ![r] = OnAuthFailure(q0)]
  /\ UNCHANGED <<timedReq, serviceObj, call, serverErrors, load, options, server, dirs, bare>>

\* ------------------------------------------- repository check, createRepo
\* mutant: the catch block answers 404 and does not return
OnRepositoryMissing_FallsThrough(q) ==
  [HandlerEnd(SetStatus(Log(q, "access_fail"), 404), <<"Repository not found">>)
     EXCEPT !.pc = "emit"]

\* fs.access failed and the repository is not to be created: 404, return
OnRepositoryMissing(q) ==
  [HandlerEnd(SetStatus(Log(q, "access_fail"), 404), <<"Repository not found">>)
     EXCEPT !.pc = "returned"]

\* mutant: every handler creates a missing repository when autoCreate is set
Access_CreatesForAnyRoute(r) ==
  /\ req[r].pc = "access"
  /\ LET q == req[r] IN
     IF q.path \in dirs
     THEN /\ req' = [req EXCEPT ![r] = [Log(q, "access_ok") EXCEPT !.pc = "emit"]]
          /\ UNCHANGED listeners
     ELSE IF options.autoCreate
     THEN /\ req' = [req EXCEPT ![r] =
               [Log(q, "access_missing") EXCEPT !.pc = "mkdir"]]
          /\ UNCHANGED listeners
     ELSE /\ req' = [req EXCEPT ![r] =
               OnRepositoryMissing(WithErrors(q, listeners, 1))]
          /\ listeners' = emitError(listeners, 1)
  /\ UNCHANGED <<timedReq, serviceObj, call, serverErrors, load, options, server, dirs, bare>>

\* `await fs.access(repositoryPath)` and its catch block
Access(r) ==
  /\ req[r].pc = "access"
  /\ LET q == req[r] IN
     IF q.path \in dirs
     THEN /\ req' = [req EXCEPT ![r] = [Log(q, "access_ok") EXCEPT !.pc = "emit"]]
          /\ UNCHANGED listeners
     ELSE IF q.route = "info" /\ options.autoCreate
     THEN /\ req' = [req EXCEPT ![r] =
               [Log(q, "access_missing") EXCEPT !.pc = "mkdir"]]
          /\ UNCHANGED listeners
     ELSE /\ req' = [req EXCEPT ![r] =
               OnRepositoryMissing(WithErrors(q, listeners, 1))]
          /\ listeners' = emitError(listeners, 1)
  /\ UNCHANGED <<timedReq, serviceObj, call, serverErrors, load, options, server, dirs, bare>>

\* mutant: createRepo returns after mkdir, without `git init --bare`
Mkdir_SkipsGitInit(r, ok) ==
  /\ req[r].pc = "mkdir"
  /\ IF ok
     THEN /\ dirs' = dirs \cup {req[r].path}
          /\ req' = [req EXCEPT ![r] = [Log(@, "mkdir") EXCEPT !.pc = "emit"]]
          /\ UNCHANGED listeners
     ELSE /\ req' = [req EXCEPT ![r] =
               [WithErrors(Log(@, "mkdir_fail"), listeners, 1)
                  EXCEPT !.pc = "crashed"]]
          /\ listeners' = emitError(listeners, 1)
          /\ UNCHANGED dirs
  /\ UNCHANGED <<timedReq, serviceObj, call, serverErrors, load, options, server, bare>>

\* createRepo: fs.mkdir(repositoryPath, {recursive: true}); a failure is
\* rethrown out of handleInfoRefs, which nothing catches
Mkdir(r, ok) ==
  /\ req[r].pc = "mkdir"
  /\ IF ok
     THEN /\ dirs' = dirs \cup {req[r].path}
          /\ req' = [req EXCEPT ![r] = [Log(@, "mkdir") EXCEPT !.pc = "init"]]
          /\ UNCHANGED listeners
     ELSE /\ req' = [req EXCEPT ![r] =
               [WithErrors(Log(@, "mkdir_fail"), listeners, 1)
                  EXCEPT !.pc = "crashed"]]
          /\ listeners' = emitError(listeners, 1)
          /\ UNCHANGED dirs
  /\ UNCHANGED <<timedReq, serviceObj, call, serverErrors, load, options, server, bare>>

\* createRepo: execa('git', ['init', '--bare', repositoryPath])
GitInit(r, ok) ==
  /\ req[r].pc = "init"
  /\ IF ok
     THEN /\ bare' = bare \cup {req[r].path}
          /\ req' = [req EXCEPT ![r] = [Log(@, "init") EXCEPT !.pc = "emit"]]
          /\ UNCHANGED listeners
     ELSE /\ req' = [req EXCEPT ![r] =
               [WithErrors(Log(@, "init_fail"), listeners, 1)
                  EXCEPT !.pc = "crashed"]]
          /\ listeners' = emitError(listeners, 1)
          /\ UNCHANGED bare
  /\ UNCHANGED <<timedReq, serviceObj, call, serverErrors, load, options, server, dirs>>

\* ------------------------------------------------------ event emission
OperationEvent(q) ==
  IF q.route = "head" THEN "head" ELSE getOperationType(q.svc)

\* mutant: the advertisement emits the type event before info
GateEventsOf_TypeFirst(q) ==
  IF q.route = "info" THEN <<OperationEvent(q), "info">>
  ELSE <<OperationEvent(q)>>

\* the events a handler emits with the gate object, in order
GateEventsOf(q) ==
  IF q.route = "info" THEN <<"info", OperationEvent(q)>>
  ELSE <<OperationEvent(q)>>

EmitLabel(e) == CASE e = "info"  -> "emit_info"
                  [] e = "fetch" -> "emit_fetch"
                  [] e = "push"  -> "emit_push"
                  [] e = "head"  -> "emit_head"

\* mutant: every event is emitted with a gate of its own
EmitOne_OwnGate(q, L, e, cs) ==
  [ApplyCalls([Log(q, EmitLabel(e)) EXCEPT !.accepted = FALSE,
                                           !.rejected = FALSE], cs)
     EXCEPT !.handed = @ \/ listenerCount(L, e) > 0]

\* this.emit(e, info): the listeners of e run inline and make the calls cs
EmitOne(q, L, e, cs) ==
  [ApplyCalls(Log(q, EmitLabel(e)), cs)
     EXCEPT !.handed = @ \/ listenerCount(L, e) > 0]

\* `if (listenerCount(...) === 0 ...) handleAccept()` after the emits
AutoAcceptIfNoListeners(q, L) ==
  IF \A i \in 1..Len(GateEventsOf(q)) : listenerCount(L, GateEventsOf(q)[i]) = 0
  THEN AutoAccept(q) ELSE q

\* registry after the handler's emits
EmitRegistry(q, L) ==
  LET evs == GateEventsOf(q)
      L1  == AfterEmit(L, evs[1])
  IN  IF Len(evs) = 2 THEN AfterEmit(L1, evs[2]) ELSE L1

\* the synchronous tail of handleInfoRefs / handleService / handleHead:
\* (pipe the body into the paused buffer,) emit, auto-accept, return.
\* cs1, cs2: the calls made inline by the listeners of the first, second event
EmitResult(q, L, cs1, cs2) ==
  LET evs == GateEventsOf(q)
      q0  == [q EXCEPT !.piped = (q.route = "rpc"),
                       !.atEmit = <<IF q.route = "info"
                                    THEN listenerCount(L, "info") ELSE 0,
                                    listenerCount(L, OperationEvent(q))>>]
      L1  == AfterEmit(L, evs[1])
      q1  == EmitOne(q0, L, evs[1], cs1)
      q2  == IF Len(evs) = 2 THEN EmitOne(q1, L1, evs[2], cs2) ELSE q1
  IN  [AutoAcceptIfNoListeners(q2, EmitRegistry(q, L)) EXCEPT !.pc = "returned"]

EmitGate(r, cs1, cs2) ==
  /\ req[r].pc = "emit"
  /\ LET q   == req[r]
         evs == GateEventsOf(q)
     IN  /\ Len(cs1) + Len(cs2) <= MaxSyncCalls
         /\ listenerCount(listeners, evs[1]) = 0 => cs1 = <<>>
         /\ (Len(evs) = 1 \/ listenerCount(listeners, evs[Len(evs)]) = 0)
              => cs2 = <<>>
         /\ listeners' = EmitRegistry(q, listeners)
         /\ req' = [req EXCEPT ![r] = EmitResult(q, listeners, cs1, cs2)]
  /\ UNCHANGED <<timedReq, serviceObj, call, serverErrors, load, options, server, dirs, bare>>

\* mutant: accepted/rejected are shared by the requests of the server
LateCall_OneGateForAll(r, c) ==
  /\ req[r].pc = "returned"
  /\ req[r].handed
  /\ req' = [x \in Reqs |->
              IF req[x].pc = "returned" /\ req[x].handed
              THEN ApplyCall(req[x], c) ELSE req[x]]
  /\ UNCHANGED <<timedReq, serviceObj, call, serverErrors, load, options, server, listeners, dirs, bare>>

\* a listener that kept the gate object calls accept()/reject() later
LateCall(r, c) ==
  /\ req[r].pc = "returned"
  /\ req[r].handed
  /\ req' = [req EXCEPT ![r] = ApplyCall(@, c)]
  /\ UNCHANGED <<timedReq, serviceObj, call, serverErrors, load, options, server, listeners, dirs, bare>>

\* --------------------------------------------------- the git subprocess
LogOnce(q, x) == IF Has(q.trace, x) THEN q ELSE Log(q, x)

\* gitProcess.on('error'): `if (!response.headersSent) { 500; end(...) }`
OnProcessError(q) ==
  IF ~q.headersSent
  THEN HandlerEnd(SetStatus(q, 500), <<"Git process error">>)
  ELSE q

\* mutant: the close handler does not test response.headersSent
OnProcessClose_NoHeadersCheck(q, code) ==
  IF code = 0 THEN HandlerEnd(q, <<>>)
  ELSE HandlerEnd(SetStatus(q, 500), <<"Git process exited with code">>)

\* gitProcess.on('close', code)
OnProcessClose(q, code) ==
  IF ~q.headersSent
  THEN IF code = 0 THEN HandlerEnd(q, <<>>)
       ELSE HandlerEnd(SetStatus(q, 500), <<"Git process exited with code">>)
  ELSE q

\* handleInfoRefs.handleAccept after `await subprocess`
AfterAwaitSubprocess(q, code) ==
  IF code = 0
  THEN IF ~q.headersSent THEN HandlerEnd(q, <<>>) ELSE q
  ELSE IF ~q.headersSent
       THEN HandlerEnd(SetStatus(q, 500), <<"Git process error">>)
       ELSE q

\* git writes a chunk to stdout; stdout.pipe(response) writes it out
GitStdout(r) ==
  /\ req[r].proc = "running"
  /\ ~req[r].outEnded
  /\ req[r].out < load.outCap
  /\ req' = [req EXCEPT ![r] =
       LogOnce([Write(@, <<OutToks[@.out + 1]>>) EXCEPT !.out = @ + 1], "stream")]
  /\ UNCHANGED <<timedReq, serviceObj, call, serverErrors, load, options, server, listeners, dirs, bare>>

\* git writes a chunk to stderr: emitError(new Error(String(data)))
GitStderr(r) ==
  /\ req[r].proc = "running"
  /\ req[r].errChunks < load.errCap
  /\ req' = [req EXCEPT ![r] =
       [WithErrors(@, listeners, 1) EXCEPT !.errChunks = @ + 1]]
  /\ listeners' = emitError(listeners, 1)
  /\ UNCHANGED <<timedReq, serviceObj, call, serverErrors, load, options, server, dirs, bare>>

\* the spawn fails (git missing, no process slot): 'error' on the child
GitSpawnError(r) ==
  /\ req[r].proc = "running"
  /\ req[r].out = 0 /\ req[r].errChunks = 0 /\ ~req[r].outEnded
  /\ req[r].stdin = <<>> /\ ~req[r].stdinEnded
  /\ req' = [req EXCEPT ![r] =
       [(IF @.route = "rpc" THEN OnProcessError(@) ELSE @)
          EXCEPT !.proc = "errored", !.exit = -2]]
  /\ UNCHANGED <<timedReq, serviceObj, call, serverErrors, load, options, server, listeners, dirs, bare>>

\* stdout reaches end of file: the pipe calls response.end(); the stdout
\* of a process that could not be spawned has no handle and never ends
GitStdoutEnd(r) ==
  /\ req[r].proc = "running"
  /\ ~req[r].outEnded
  /\ req' = [req EXCEPT ![r] = [End(@, <<>>) EXCEPT !.outEnded = TRUE]]
  /\ UNCHANGED <<timedReq, serviceObj, call, serverErrors, load, options, server, listeners, dirs, bare>>

\* the child's 'close' event: after its stdio streams have closed, or
\* right after 'error' (code -2) when it could not be spawned
GitClose(r, code) ==
  /\ req[r].proc \in {"running", "errored"}
  /\ req[r].proc = "running" => req[r].outEnded
  /\ (req[r].proc = "errored") = (code = -2)
  /\ req' = [req EXCEPT ![r] =
       [(IF @.route = "rpc" THEN OnProcessClose(@, code) ELSE @)
          EXCEPT !.proc = "closed", !.exit = code]]
  /\ UNCHANGED <<timedReq, serviceObj, call, serverErrors, load, options, server, listeners, dirs, bare>>

\* the execa promise settles and handleAccept of info/refs continues
AdvSettle(r) ==
  /\ req[r].awaiting
  /\ req[r].proc \in {"errored", "closed"}
  /\ req' = [req EXCEPT ![r] =
       [AfterAwaitSubprocess(@, @.exit) EXCEPT !.awaiting = FALSE]]
  /\ UNCHANGED <<timedReq, serviceObj, call, serverErrors, load, options, server, listeners, dirs, bare>>

\* ------------------------------------------- the request body pipeline
\* the client sends the next k pieces of the body as one chunk
BodyChunk(r, k) ==
  /\ req[r].route = "rpc"
  /\ k \in 1..(req[r].bodyLen - req[r].sent)
  /\ req' = [req EXCEPT ![r] =
       [@ EXCEPT !.reqbuf = Append(@, SubSeq(req[r].payload, req[r].sent + 1,
                                                req[r].sent + k)),
                 !.sent = @ + k]]
  /\ UNCHANGED <<timedReq, serviceObj, call, serverErrors, load, options, server, listeners, dirs, bare>>

\* the request.on('data') listener of the tag detection: `data` is the chunk
\* alone, since it is cleared at the end of every call
OnRequestData(q, chunk) ==
  IF q.sniffing THEN Sniff(q.name, chunk) ELSE <<>>

\* this.emit('tag', tagInfo) for each tagInfo found
WithTags(q, L, found) ==
  [q EXCEPT !.tags = @ \o found,
            !.tagHanded = @ \/ (found # <<>> /\ listenerCount(L, "tag") > 0)]

\* mutant: no paused buffer, a chunk emitted before the accept is lost
RequestData_DropsWhilePaused(r) ==
  /\ req[r].piped
  /\ req[r].reqbuf # <<>>
  /\ LET found == OnRequestData(req[r], Head(req[r].reqbuf)) IN
       /\ req' = [req EXCEPT ![r] =
            [WithTags(@, listeners, found)
               EXCEPT !.pass = IF req[r].resumed
                               THEN Append(@, Head(req[r].reqbuf)) ELSE @,
                      !.reqbuf = Tail(@)]]
       /\ listeners' = IF found = <<>> THEN listeners
                       ELSE AfterEmit(listeners, "tag")
  /\ UNCHANGED <<timedReq, serviceObj, call, serverErrors, load, options, server, dirs, bare>>

\* request emits 'data': request.pipe(bufferedStream) writes the chunk, then
\* the tag detection, when handleAccept has attached it, reads the chunk
RequestData(r) ==
  /\ req[r].piped
  /\ req[r].reqbuf # <<>>
  /\ LET found == OnRequestData(req[r], Head(req[r].reqbuf)) IN
       /\ req' = [req EXCEPT ![r] =
            [WithTags(@, listeners, found)
               EXCEPT !.pass = Append(@, Head(req[r].reqbuf)),
                      !.reqbuf = Tail(@)]]
       /\ listeners' = IF found = <<>> THEN listeners
                       ELSE AfterEmit(listeners, "tag")
  /\ UNCHANGED <<timedReq, serviceObj, call, serverErrors, load, options, server, dirs, bare>>

\* request emits 'end': the pipe ends bufferedStream
RequestEnd(r) ==
  /\ req[r].piped
  /\ req[r].sent = req[r].bodyLen /\ req[r].reqbuf = <<>>
  /\ ~req[r].passEnded
  /\ req' = [req EXCEPT ![r].passEnded = TRUE]
  /\ UNCHANGED <<timedReq, serviceObj, call, serverErrors, load, options, server, listeners, dirs, bare>>

\* bufferedStream, resumed, hands its next chunk to gitProcess.stdin
BufferToStdin(r) ==
  /\ req[r].resumed
  /\ req[r].pass # <<>>
  /\ req[r].proc = "running"
  /\ req' = [req EXCEPT ![r] =
       [@ EXCEPT !.stdin = @ \o Head(req[r].pass), !.pass = Tail(@)]]
  /\ UNCHANGED <<timedReq, serviceObj, call, serverErrors, load, options, server, listeners, dirs, bare>>

\* bufferedStream ends: the pipe ends gitProcess.stdin
StdinEnd(r) ==
  /\ req[r].resumed
  /\ req[r].passEnded /\ req[r].pass = <<>>
  /\ ~req[r].stdinEnded
  /\ req[r].proc = "running"
  /\ req' = [req EXCEPT ![r].stdinEnded = TRUE]
  /\ UNCHANGED <<timedReq, serviceObj, call, serverErrors, load, options, server, listeners, dirs, bare>>

\* ------------------------------------------------------- specifications
ExitCodes == {0, 1, -2}
CallSeqs == SeqsUpTo(Calls, MaxSyncCalls)

Setup ==
  \/ \E e \in Events : On(e)
  \/ \E e \in Events : Once(e)
  \/ Listen

Handler(r) ==
  \/ \E m \in Methods, u \in Urls : ArriveNoMatch(r, m, u)
  \/ \E m \in Methods, u \in Urls : ArriveHead(r, m, u)
  \/ \E m \in Methods, u \in Urls, sp \in ServiceParams \cup {NoParam} :
       ArriveInfoRefs(r, m, u, sp)
  \/ \E m \in Methods, u \in Urls, b \in Bodies : ArriveService(r, m, u, b)
  \/ \E hdr \in AuthHeaders, ok \in BOOLEAN : Authenticate(r, hdr, ok)
  \/ Access(r)
  \/ \E ok \in BOOLEAN : Mkdir(r, ok)
  \/ \E ok \in BOOLEAN : GitInit(r, ok)
  \/ \E cs1 \in CallSeqs, cs2 \in CallSeqs : EmitGate(r, cs1, cs2)

Subprocess(r) ==
  \/ GitStdout(r)
  \/ GitSpawnError(r)
  \/ GitStdoutEnd(r)
  \/ \E code \in ExitCodes : GitClose(r, code)
  \/ AdvSettle(r)

Listener(r) == \E c \in Calls : LateCall(r, c)

\* a 'tag' listener calls accept() or reject() on the tagInfo it was given
TagCalls == {"accept", "reject"}

\* mutant: tagInfo.reject() refuses the push
TagCall_RejectRefuses(r, c) ==
  /\ req[r].tagHanded
  /\ Len(req[r].tagCalls) < MaxSyncCalls
  /\ IF c = "accept"
     THEN /\ req' = [req EXCEPT ![r].tagCalls = Append(@, c)]
          /\ UNCHANGED listeners
     ELSE /\ req' = [req EXCEPT ![r] =
               [WithErrors(@, listeners, 1)
                  EXCEPT !.tagCalls = Append(@, c), !.rejected = TRUE,
                         !.stdinEnded = TRUE]]
          /\ listeners' = emitError(listeners, 1)
  /\ UNCHANGED <<timedReq, serviceObj, call, serverErrors, load, options, server, dirs, bare>>

\* tagInfo.accept() does nothing; tagInfo.reject(message) calls emitError
TagCall(r, c) ==
  /\ req[r].tagHanded
  /\ Len(req[r].tagCalls) < MaxSyncCalls
  /\ IF c = "accept"
     THEN /\ req' = [req EXCEPT ![r].tagCalls = Append(@, c)]
          /\ UNCHANGED listeners
     ELSE /\ req' = [req EXCEPT ![r] =
               [WithErrors(@, listeners, 1) EXCEPT !.tagCalls = Append(@, c)]]
          /\ listeners' = emitError(listeners, 1)
  /\ UNCHANGED <<timedReq, serviceObj, call, serverErrors, load, options, server, dirs, bare>>

TagListener(r) == \E c \in TagCalls : TagCall(r, c)

BodyStream(r) ==
  \/ \E k \in 1..MaxBody : BodyChunk(r, k)
  \/ RequestData(r)
  \/ RequestEnd(r)
  \/ BufferToStdin(r)
  \/ StdinEnd(r)

Next ==
  \/ Setup
  \/ \E r \in Reqs : Handler(r)
  \/ \E r \in Reqs : Subprocess(r)
  \/ \E r \in Reqs : Listener(r)

\* every request shape, empty bodies, listeners on the gate events
Spec == Init /\ [][Next]_vars

\* The event loop runs every continuation that is ready and a spawned git
\* process ends; nothing makes a listener call accept() or reject().
Fairness ==
  \A r \in Reqs : WF_vars(Handler(r)) /\ WF_vars(Subprocess(r))

FairSpec == Spec /\ Fairness

\* RPC requests with a body: the request -> bufferedStream -> stdin pipeline
InitRpc ==
  /\ timedReq = IdleTimed
  /\ serviceObj = NewService
  /\ call = NoCall
  /\ serverErrors = 0
  /\ load = [clients |-> {1}, methods |-> {"POST"}, urls |-> Urls,
             bodyCap |-> MaxBody,
             regCap |-> MaxListeners,
             events |-> {"push", "tag"}, outCap |-> MaxOut, errCap |-> 0]
  /\ options \in [autoCreate : {FALSE}, authenticate : BOOLEAN]
  /\ server = "none"
  /\ listeners = [e \in Events |-> [on |-> 0, once |-> 0]]
  /\ dirs = InitialDirs
  /\ bare = {RepositoryPath(<<"r1">>)}
  /\ req = [r \in Reqs |-> IdleReq]

HandlerRpc(r) ==
  \/ \E m \in Methods, u \in Urls, b \in Bodies : ArriveService(r, m, u, b)
  \/ \E hdr \in AuthHeaders, ok \in BOOLEAN : Authenticate(r, hdr, ok)
  \/ Access(r)
  \/ \E cs1 \in CallSeqs, cs2 \in CallSeqs : EmitGate(r, cs1, cs2)

SubprocessRpc(r) ==
  \/ GitStdout(r)
  \/ GitSpawnError(r)
  \/ GitStdoutEnd(r)
  \/ \E code \in ExitCodes : GitClose(r, code)

NextRpc ==
  \/ Setup
  \/ \E r \in Reqs : HandlerRpc(r)
  \/ \E r \in Reqs : SubprocessRpc(r)
  \/ \E r \in Reqs : Listener(r)
  \/ \E r \in Reqs : BodyStream(r)
  \/ \E r \in Reqs : TagListener(r)

SpecRpc == InitRpc /\ [][NextRpc]_vars

\* ------------------------- src/src/gitserver.ts: the gate that waits on timers
\* setTimeout(..., 1000) counted in periods of setInterval(..., 100)
TimeoutTicks == 10

TimedHandlers == {"handleInfoRefs", "handleService"}

TimedGate(t) == IF t.accepted THEN "ACCEPTED"
                ELSE IF t.rejected THEN "REJECTED" ELSE "PENDING"

\* handleAccept: 200 and the git subprocess (the banner first in handleInfoRefs)
timedHandleAccept(t, by) ==
  IF t.accepted \/ t.rejected THEN t
  ELSE [t EXCEPT !.accepted = TRUE, !.status = 200, !.spawned = @ + 1,
                 !.body = IF t.handler = "handleInfoRefs"
                          THEN Banner("receive-pack") ELSE @,
                 !.decidedBy = by, !.decidedAt = t.now]

\* handleReject: 403 (handleInfoRefs) or 500 (handleService) and the message
timedHandleReject(t, message) ==
  IF t.accepted \/ t.rejected THEN t
  ELSE [t EXCEPT !.rejected = TRUE,
                 !.status = IF t.handler = "handleInfoRefs" THEN 403 ELSE 500,
                 !.body = <<message>>, !.ended = TRUE,
                 !.decidedBy = "reject", !.decidedAt = t.now]

\* info.accept() / info.reject(message = 'rejected')
TimedCall(t, c) ==
  IF c.op = "accept" THEN timedHandleAccept(t, "accept")
  ELSE timedHandleReject(t, IF c.msg = Omitted THEN DefaultMessage ELSE c.msg)

RECURSIVE TimedCalls(_, _)
TimedCalls(t, cs) ==
  IF cs = <<>> THEN t ELSE TimedCalls(TimedCall(t, Head(cs)), Tail(cs))

\* the handler emits the type event (the listeners make the calls cs inline)
\* and sets its two timers
TimedEmit(h, cs) ==
  /\ server = "listening"
  /\ timedReq.pc = "idle"
  /\ listenerCount(listeners, "push") = 0 => cs = <<>>
  /\ timedReq' =
       [TimedCalls([timedReq EXCEPT !.handler = h], cs)
          EXCEPT !.pc = "waiting", !.handed = listenerCount(listeners, "push") > 0,
                 !.timeoutId = TRUE, !.checkDone = TRUE]
  /\ listeners' = AfterEmit(listeners, "push")
  /\ UNCHANGED <<serviceObj, call, serverErrors, load, options, server, dirs, bare, req>>

\* a listener that kept the info object calls accept()/reject() later
TimedLateCall(c) ==
  /\ timedReq.pc # "idle"
  /\ timedReq.handed
  /\ timedReq' = TimedCall(timedReq, c)
  /\ UNCHANGED <<serviceObj, call, serverErrors, load, options, server, listeners, dirs, bare, req>>

\* 100 ms pass: the interval is due, and the timeout at the tenth period
TimedAdvance ==
  /\ timedReq.pc # "idle"
  /\ timedReq.timeoutId \/ timedReq.checkDone
  /\ ~timedReq.timeoutDue /\ ~timedReq.intervalDue
  /\ timedReq.now < MaxTicks
  /\ timedReq' = [timedReq EXCEPT
       !.now = @ + 1,
       !.intervalDue = timedReq.checkDone,
       !.timeoutDue = timedReq.timeoutId /\ timedReq.now + 1 = TimeoutTicks]
  /\ UNCHANGED <<serviceObj, call, serverErrors, load, options, server, listeners, dirs, bare, req>>

\* mutant: the timeout calls handleAccept's body without testing the flags
TimedTimeout_NoTest ==
  /\ timedReq.timeoutDue
  /\ timedReq' =
       [timedReq EXCEPT !.accepted = TRUE, !.status = 200, !.spawned = @ + 1,
                        !.autoAccepts = @ + 1,
                        !.decidedBy = IF @ = "none" THEN "timer" ELSE @,
                        !.decidedAt = IF timedReq.decidedBy = "none"
                                      THEN timedReq.now ELSE @,
                        !.pc = "resolved",
                        !.timeoutId = FALSE, !.timeoutDue = FALSE]
  /\ UNCHANGED <<serviceObj, call, serverErrors, load, options, server, listeners, dirs, bare, req>>

\* the setTimeout callback: `if (!accepted && !rejected) handleAccept();
\* resolve()`
TimedTimeout ==
  /\ timedReq.timeoutDue
  /\ LET undecided == ~timedReq.accepted /\ ~timedReq.rejected
         t == IF undecided
              THEN [timedHandleAccept(timedReq, "timer")
                      EXCEPT !.autoAccepts = @ + 1]
              ELSE timedReq
     IN  timedReq' = [t EXCEPT !.pc = "resolved",
                               !.timeoutId = FALSE, !.timeoutDue = FALSE]
  /\ UNCHANGED <<serviceObj, call, serverErrors, load, options, server, listeners, dirs, bare, req>>

\* the setInterval callback: `if (accepted || rejected) { clearTimeout;
\* clearInterval; resolve() }`
TimedInterval ==
  /\ timedReq.intervalDue
  /\ timedReq' =
       IF timedReq.accepted \/ timedReq.rejected
       THEN [timedReq EXCEPT !.pc = "resolved",
                             !.timeoutId = FALSE, !.timeoutDue = FALSE,
                             !.checkDone = FALSE, !.intervalDue = FALSE]
       ELSE [timedReq EXCEPT !.intervalDue = FALSE]
  /\ UNCHANGED <<serviceObj, call, serverErrors, load, options, server, listeners, dirs, bare, req>>

TimedTimers == TimedAdvance \/ TimedTimeout \/ TimedInterval

InitTimed ==
  /\ timedReq = IdleTimed
  /\ serviceObj = NewService
  /\ call = NoCall
  /\ serverErrors = 0
  /\ load = [clients |-> {}, methods |-> {}, urls |-> {}, bodyCap |-> 0,
             regCap |-> MaxListeners,
             events |-> {"push"}, outCap |-> 0, errCap |-> 0]
  /\ options = [autoCreate |-> FALSE, authenticate |-> FALSE]
  /\ server = "none"
  /\ listeners = [e \in Events |-> [on |-> 0, once |-> 0]]
  /\ dirs = InitialDirs
  /\ bare = {RepositoryPath(<<"r1">>)}
  /\ req = [r \in Reqs |-> IdleReq]

NextTimed ==
  \/ Setup
  \/ \E h \in TimedHandlers, cs \in CallSeqs : TimedEmit(h, cs)
  \/ \E c \in Calls : TimedLateCall(c)
  \/ TimedTimers

SpecTimed == InitTimed /\ [][NextTimed]_vars

\* timers that are due fire, and time passes
FairSpecTimed == SpecTimed /\ WF_vars(TimedTimers)

\* ------------------------------------------- src/src/service.ts: Service
\* this.emit('end'): the once('end', resolve) of the promise, when registered
serviceEmitEnd(v) ==
  IF v.onEnd
  THEN [v EXCEPT !.onEnd = FALSE,
                 !.settled = IF @ = "pending" THEN "resolved" ELSE @]
  ELSE v

\* this.emit('error', e): the once('error', reject) of the promise, when
\* registered; an 'error' event without a listener is thrown
serviceEmitError(v) ==
  IF v.onError
  THEN [v EXCEPT !.onError = FALSE,
                 !.settled = IF @ = "pending" THEN "rejected" ELSE @]
  ELSE [v EXCEPT !.uncaught = TRUE]

\* Service.accept(): emit('accepted'), whose listener defers the spawn with
\* process.nextTick
serviceAccept(v, by, when) ==
  IF v.accepted \/ v.rejected THEN v
  ELSE [v EXCEPT !.accepted = TRUE, !.decidedBy = by, !.decidedIn = when,
                 !.tick = v.onAccepted, !.onAccepted = FALSE]

\* Service.reject(message): emit('rejected', message), whose listener answers
\* 500 with the message and emits 'end'
serviceReject(v, message, when) ==
  IF v.accepted \/ v.rejected THEN v
  ELSE LET a == [v EXCEPT !.rejected = TRUE, !.decidedBy = "reject",
                          !.decidedIn = when]
       IN  IF ~v.onRejected THEN a
           ELSE serviceEmitEnd([a EXCEPT !.onRejected = FALSE, !.status = 500,
                                         !.body = <<message>>, !.ended = TRUE])

ServiceCall(v, c, when) ==
  IF c.op = "accept" THEN serviceAccept(v, "accept", when)
  ELSE serviceReject(v, IF c.msg = Omitted THEN DefaultMessage ELSE c.msg, when)

RECURSIVE ServiceCalls(_, _, _)
ServiceCalls(v, cs, when) ==
  IF cs = <<>> THEN v
  ELSE ServiceCalls(ServiceCall(v, Head(cs), when), Tail(cs), when)

\* Service.execute(): gitServer.emit(type, info) (the listeners make the
\* calls cs inline), setTimeout, then the promise with once('end', resolve)
\* and once('error', reject)
ServiceExecute(cs) ==
  /\ server = "listening"
  /\ serviceObj.pc = "new"
  /\ listenerCount(listeners, "push") = 0 => cs = <<>>
  /\ serviceObj' =
       [ServiceCalls(serviceObj, cs, "emit")
          EXCEPT !.pc = "executed",
                 !.handed = listenerCount(listeners, "push") > 0,
                 !.timeoutId = TRUE, !.onEnd = TRUE, !.onError = TRUE]
  /\ listeners' = AfterEmit(listeners, "push")
  /\ UNCHANGED <<timedReq, call, serverErrors, load, options, server, dirs, bare, req>>

\* a listener that kept the info object calls accept()/reject() later
ServiceLateCall(c) ==
  /\ serviceObj.pc = "executed"
  /\ serviceObj.handed
  /\ serviceObj' = ServiceCall(serviceObj, c, "later")
  /\ UNCHANGED <<timedReq, call, serverErrors, load, options, server, listeners, dirs, bare, req>>

\* the setTimeout callback: `if (!accepted && !rejected) this.accept()`
ServiceTimeout ==
  /\ serviceObj.timeoutId
  /\ serviceObj' = [serviceAccept(serviceObj, "timer", "later")
                      EXCEPT !.timeoutId = FALSE]
  /\ UNCHANGED <<timedReq, call, serverErrors, load, options, server, listeners, dirs, bare, req>>

\* the process.nextTick callback of the 'accepted' listener: spawn git
ServiceNextTick ==
  /\ serviceObj.tick
  /\ serviceObj.pc = "executed"
  /\ serviceObj' = [serviceObj EXCEPT !.tick = FALSE, !.spawned = @ + 1,
                                      !.proc = "running"]
  /\ UNCHANGED <<timedReq, call, serverErrors, load, options, server, listeners, dirs, bare, req>>

\* gitProcess 'error' (git could not be spawned): this.emit('error', error)
ServiceSpawnError ==
  /\ serviceObj.proc = "running"
  /\ serviceObj' = [serviceEmitError(serviceObj) EXCEPT !.proc = "errored"]
  /\ UNCHANGED <<timedReq, call, serverErrors, load, options, server, listeners, dirs, bare, req>>

\* the stdout of git ends: gitProcess.stdout.pipe(this.res) ends the response
ServiceStdoutEnd ==
  /\ serviceObj.proc = "running"
  /\ ~serviceObj.outEnded
  /\ serviceObj' = [serviceObj EXCEPT !.outEnded = TRUE, !.ended = TRUE]
  /\ UNCHANGED <<timedReq, call, serverErrors, load, options, server, listeners, dirs, bare, req>>

\* gitProcess 'close', after its stdio streams have closed or right after a
\* failed spawn (code -2): code 0 writes '0000', ends the response and emits
\* 'end'; any other code emits 'error'
ServiceClose(code) ==
  /\ serviceObj.proc \in {"running", "errored"}
  /\ serviceObj.proc = "running" => serviceObj.outEnded
  /\ (serviceObj.proc = "errored") = (code = -2)
  /\ serviceObj' =
       [(IF code = 0
         THEN serviceEmitEnd([serviceObj EXCEPT
                !.body = IF serviceObj.ended THEN @ ELSE @ \o <<"0000">>,
                !.ended = TRUE])
         ELSE serviceEmitError(serviceObj))
          EXCEPT !.proc = "closed", !.exit = code]
  /\ UNCHANGED <<timedReq, call, serverErrors, load, options, server, listeners, dirs, bare, req>>

\* what the event loop and the git process do by themselves
ServiceSteps ==
  \/ ServiceTimeout
  \/ ServiceNextTick
  \/ ServiceSpawnError
  \/ ServiceStdoutEnd
  \/ \E code \in ExitCodes : ServiceClose(code)

NextService ==
  \/ Setup
  \/ \E cs \in CallSeqs : ServiceExecute(cs)
  \/ \E c \in Calls : ServiceLateCall(c)
  \/ ServiceSteps

\* a Service on a server with up to MaxListeners listeners on 'push'
SpecService == InitTimed /\ [][NextService]_vars

\* the timeout fires, the nextTick callback runs, and git terminates
FairSpecService ==
  SpecService /\ WF_vars(ServiceTimeout) /\ WF_vars(ServiceNextTick)
              /\ WF_vars(ServiceStdoutEnd)
              /\ WF_vars(\E code \in ExitCodes : ServiceClose(code))

\* advertisements with a listener on 'info' and a listener on the type event
InitAdv ==
  /\ timedReq = IdleTimed
  /\ serviceObj = NewService
  /\ call = NoCall
  /\ serverErrors = 0
  /\ load = [clients |-> {1}, methods |-> {"GET"}, urls |-> Urls, bodyCap |-> 0,
             regCap |-> MaxListeners + 1,
             events |-> {"info", "fetch", "push"}, outCap |-> MaxOut,
             errCap |-> 0]
  /\ options \in [autoCreate : {FALSE}, authenticate : {FALSE}]
  /\ server = "none"
  /\ listeners = [e \in Events |-> [on |-> 0, once |-> 0]]
  /\ dirs = InitialDirs
  /\ bare = {RepositoryPath(<<"r1">>)}
  /\ req = [r \in Reqs |-> IdleReq]

HandlerAdv(r) ==
  \/ \E m \in Methods, u \in Urls, sp \in ServiceParams \cup {NoParam} :
       ArriveInfoRefs(r, m, u, sp)
  \/ \E hdr \in AuthHeaders, ok \in BOOLEAN : Authenticate(r, hdr, ok)
  \/ Access(r)
  \/ \E cs1 \in CallSeqs, cs2 \in CallSeqs : EmitGate(r, cs1, cs2)

NextAdv ==
  \/ Setup
  \/ \E r \in Reqs : HandlerAdv(r)
  \/ \E r \in Reqs : Subprocess(r)
  \/ \E r \in Reqs : Listener(r)

SpecAdv == InitAdv /\ [][NextAdv]_vars

\* several requests in flight, sent with either method, a listener on 'push'
SomeUrls == { <<"r1", "git-receive-pack">>, <<"r1", "info", "refs">>, <<"r1">> }

InitMany ==
  /\ timedReq = IdleTimed
  /\ serviceObj = NewService
  /\ call = NoCall
  /\ serverErrors = 0
  /\ load = [clients |-> {1, 2}, methods |-> Methods, urls |-> SomeUrls,
             bodyCap |-> 0,
             regCap |-> MaxListeners,
             events |-> {"push"}, outCap |-> 0, errCap |-> 0]
  /\ options \in [autoCreate : {FALSE}, authenticate : {FALSE}]
  /\ server = "none"
  /\ listeners = [e \in Events |-> [on |-> 0, once |-> 0]]
  /\ dirs = InitialDirs
  /\ bare = {RepositoryPath(<<"r1">>)}
  /\ req = [r \in Reqs |-> IdleReq]

HandlerMany(r) ==
  \/ \E m \in Methods, u \in Urls : ArriveNoMatch(r, m, u)
  \/ \E m \in Methods, u \in Urls, sp \in ServiceParams \cup {NoParam} :
       ArriveInfoRefs(r, m, u, sp)
  \/ \E m \in Methods, u \in Urls, b \in Bodies : ArriveService(r, m, u, b)
  \/ \E hdr \in AuthHeaders, ok \in BOOLEAN : Authenticate(r, hdr, ok)
  \/ Access(r)
  \/ \E cs1 \in CallSeqs, cs2 \in CallSeqs : EmitGate(r, cs1, cs2)

SubprocessMany(r) ==
  \/ GitSpawnError(r)
  \/ GitStdoutEnd(r)
  \/ \E code \in ExitCodes : GitClose(r, code)
  \/ AdvSettle(r)

NextMany ==
  \/ Setup
  \/ \E r \in Reqs : HandlerMany(r)
  \/ \E r \in Reqs : SubprocessMany(r)
  \/ \E r \in Reqs : Listener(r)

SpecMany == InitMany /\ [][NextMany]_vars

\* the subprocess and the 'error' event: no gate listeners (every request is
\* auto-accepted), listeners on 'error', stderr output, longer stdout, close()
InitIo ==
  /\ timedReq = IdleTimed
  /\ serviceObj = NewService
  /\ call = NoCall
  /\ serverErrors = 0
  /\ load = [clients |-> {1}, methods |-> {"GET"}, urls |-> Urls, bodyCap |-> 0,
             regCap |-> MaxListeners,
             events |-> {"error"}, outCap |-> MaxStream, errCap |-> MaxErr]
  /\ options \in [autoCreate : BOOLEAN, authenticate : {FALSE}]
  /\ server = "none"
  /\ listeners = [e \in Events |-> [on |-> 0, once |-> 0]]
  /\ dirs = InitialDirs
  /\ bare = {RepositoryPath(<<"r1">>)}
  /\ req = [r \in Reqs |-> IdleReq]

SubprocessIo(r) == Subprocess(r) \/ GitStderr(r)

NextIo ==
  \/ Setup
  \/ Close
  \/ \E r \in Reqs : Handler(r)
  \/ \E r \in Reqs : SubprocessIo(r)

SpecIo == InitIo /\ [][NextIo]_vars

FairnessIo ==
  \A r \in Reqs : WF_vars(Handler(r)) /\ WF_vars(SubprocessIo(r))

FairSpecIo == SpecIo /\ FairnessIo

\* the utility functions, each applied once to an argument drawn in UtilInit
SidebandInputs ==
  {Repeat("x", n) : n \in 0..MaxSideband} \cup
  {Repeat("x", n) : n \in {252, 4091, 4092, 65531, 65532}} \cup
  {<<"t", "e", "s", "t">>}

CredentialHeaders == {<<"Basic", c>> : c \in Base64Inputs}

InitUtil ==
  /\ timedReq = IdleTimed
  /\ serviceObj = NewService
  /\ call \in [fn : {"none"}, arg : SidebandInputs \cup CredentialHeaders,
               result : {<<>>}]
  /\ serverErrors = 0
  /\ load = [clients |-> {}, methods |-> {}, urls |-> {}, bodyCap |-> 0,
             regCap |-> 0,
             events |-> {}, outCap |-> 0, errCap |-> 0]
  /\ options = [autoCreate |-> FALSE, authenticate |-> FALSE]
  /\ server = "none"
  /\ listeners = [e \in Events |-> [on |-> 0, once |-> 0]]
  /\ dirs = InitialDirs
  /\ bare = {RepositoryPath(<<"r1">>)}
  /\ req = [r \in Reqs |-> IdleReq]

CallPackSideband ==
  /\ call.fn = "none"
  /\ call.arg \in SidebandInputs
  /\ call' = [call EXCEPT !.fn = "packSideband", !.result = packSideband(call.arg)]
  /\ UNCHANGED <<timedReq, serviceObj, serverErrors, load, options, server, listeners, dirs, bare, req>>

\* authenticate(): parseBasicAuth(request), then the authenticator is called
\* with the username and password it returned
CallParseBasicAuth ==
  /\ call.fn = "none"
  /\ call.arg \in CredentialHeaders
  /\ call' = [call EXCEPT !.fn = "parseBasicAuth",
                          !.result = <<parseBasicAuth(call.arg).username,
                                       parseBasicAuth(call.arg).password>>]
  /\ UNCHANGED <<timedReq, serviceObj, serverErrors, load, options, server, listeners, dirs, bare, req>>

NextUtil == CallPackSideband \/ CallParseBasicAuth

SpecUtil == InitUtil /\ [][NextUtil]_vars

\* =================================================================== claims
Matched(q)  == q.route \in {"info", "rpc", "head"}
Emitted(q)  == Matched(q) /\ Has(q.trace, EmitLabel(GateEventsOf(q)[1]))
Returned(q) == q.pc = "returned"

\* the response of handleReject: 403/500, text/plain, the message as body
RejectionSent(q) ==
  /\ q.ended
  /\ q.sentStatus = (IF q.route = "rpc" THEN 500 ELSE 403)
  /\ <<"Content-Type", <<"text/plain">>>> \in q.headers
  /\ Len(q.body) = 1 /\ q.body[1] \in RejectMsgs

\* what a client or an observer of the request can see of the gate's effect
Observable(q) ==
  <<Gate(q), q.status, q.sentStatus, q.headersSent, q.headers, q.body,
    q.ended, q.spawned>>

\* C1: in every reachable state a request has spawned exactly one git service
\* subprocess if its gate is ACCEPTED (none for HEAD) and none if the gate is
\* PENDING or REJECTED, and the rejection response has been sent exactly when
\* the gate is REJECTED.
C1_SpawnIffAccepted ==
  \A r \in Reqs :
    LET q == req[r] IN
      /\ q.spawned = (IF Gate(q) = "ACCEPTED" /\ q.route # "head" THEN 1 ELSE 0)
      /\ RejectionSent(q) <=> (Gate(q) = "REJECTED")
      /\ ~(q.accepted /\ q.rejected)

C1_Witness ==
  \E r \in Reqs :
    /\ req[r].route = "rpc" /\ Gate(req[r]) = "ACCEPTED"
    /\ req[r].decidedBy = "accept" /\ req[r].spawned = 1
    /\ req[r].proc = "closed"

\* C2: once the gate of a request is decided, a further accept() or reject()
\* call changes nothing observable: the gate, the response status, headers and
\* body and the number of spawned subprocesses stay as they were. This holds
\* for a call made later by a listener that kept the gate object, and for the
\* calls made inline during the emission after the first of them.
FirstOnly(cs) == IF cs = <<>> THEN <<>> ELSE <<Head(cs)>>

C2_LaterCallsAreNoOps ==
  [][\A r \in Reqs :
       /\ \A c \in Calls :
            (Gate(req[r]) # "PENDING" /\ LateCall(r, c))
              => Observable(req'[r]) = Observable(req[r])
       /\ \A cs1 \in CallSeqs, cs2 \in CallSeqs :
            EmitGate(r, cs1, cs2)
              => Observable(req'[r]) =
                 Observable(EmitResult(req[r], listeners, FirstOnly(cs1),
                              IF cs1 = <<>> THEN FirstOnly(cs2) ELSE <<>>))
    ]_vars

C2_Witness ==
  \E r \in Reqs :
    /\ req[r].laterCall /\ req[r].decidedBy = "accept"
    /\ req[r].spawned = 1 /\ req[r].sentStatus = 200

\* C3: every request that has emitted its gate event eventually leaves
\* PENDING, whatever the listeners do.
C3_GateEventuallyDecided ==
  \A r \in Reqs :
    (Emitted(req[r]) /\ Returned(req[r])) ~> (Gate(req[r]) # "PENDING")

\* C4: with an authenticator configured, an advertisement or RPC request that
\* has emitted a gate event, spawned a subprocess or committed status 200 has
\* called the authenticator exactly once before that, and the call succeeded.
AuthCalls(q) == Count(q.trace, "auth_ok") + Count(q.trace, "auth_fail")

BeforeIfAny(tr, x, y) == Has(tr, y) => (Has(tr, x) /\ First(tr, x) < First(tr, y))

C4_AuthPrecedesService ==
  options.authenticate =>
    \A r \in Reqs :
      LET q == req[r] IN
        (q.route \in {"info", "rpc"}
           /\ (Emitted(q) \/ q.spawned > 0 \/ q.sentStatus = 200))
          => /\ AuthCalls(q) = 1 /\ Count(q.trace, "auth_ok") = 1
             /\ \A x \in {"emit_info", "emit_fetch", "emit_push", "spawn",
                          "headers"} : BeforeIfAny(q.trace, "auth_ok", x)

C4_Witness ==
  \E r \in Reqs :
    /\ options.authenticate /\ req[r].route = "info"
    /\ req[r].spawned = 1 /\ req[r].sentStatus = 200
    /\ Has(req[r].trace, "auth_ok")

\* C5: when the configured authenticator throws or rejects, the request is
\* answered 401 "Authentication failed" with WWW-Authenticate: Basic
\* realm="Git Server", and nothing else happens for it: no directory, no
\* repository, no gate event, no subprocess.
C5_AuthFailureIs401 ==
  \A r \in Reqs :
    LET q == req[r] IN
      Has(q.trace, "auth_fail")
        => /\ options.authenticate /\ q.route \in {"info", "rpc"}
           /\ q.ended /\ q.sentStatus = 401
           /\ q.body = <<"Authentication failed">>
           /\ <<"WWW-Authenticate", <<"Basic realm=\"Git Server\"">>>> \in q.headers
           /\ ~Emitted(q) /\ q.spawned = 0 /\ Gate(q) = "PENDING"
           /\ \A x \in {"mkdir", "init", "access_ok", "access_missing"} :
                ~Has(q.trace, x)
           /\ (q.path \in dirs) = (q.path \in InitialDirs)
           /\ Returned(q)

C5_Witness ==
  \E r \in Reqs :
    /\ Has(req[r].trace, "auth_fail") /\ req[r].route = "rpc"
    /\ req[r].sentStatus = 401 /\ options.autoCreate

\* C6: every path handed to mkdir, git init or a git service lies inside the
\* root directory: a request whose normalized repository path is outside the
\* root runs none of them on it and is never served (no status 200).
RanOnPath(q) ==
  \E x \in {"mkdir", "mkdir_fail", "init", "init_fail", "spawn"} : Has(q.trace, x)

C6_PathContainment ==
  \A r \in Reqs :
    LET q == req[r] IN
      (Matched(q) /\ ~InsideRoot(q.path))
        => /\ ~RanOnPath(q)
           /\ q.sentStatus # 200

\* C7: for an RPC request the bytes are never lost, duplicated or reordered
\* between the client and git: what stdin has received, then what
\* bufferedStream holds, then what the request has not yet emitted, is the
\* part of the body sent so far; stdin receives nothing before the accept and
\* its end-of-input only after the whole body; and once the body is sent and
\* the pipeline has nothing left to move, a running git has got all of it and
\* the end-of-input.
PipelineStep(r) ==
  RequestData(r) \/ RequestEnd(r) \/ BufferToStdin(r) \/ StdinEnd(r)

C7_StdinReceivesBody ==
  \A r \in Reqs :
    LET q == req[r] IN
      q.route = "rpc"
        => /\ q.stdin \o Flatten(q.pass) \o Flatten(q.reqbuf)
                = SubSeq(BodyOf(q), 1, q.sent)
           /\ q.stdinEnded => q.stdin = BodyOf(q)
           /\ ~q.accepted => (q.stdin = <<>> /\ ~q.stdinEnded)
           /\ (q.accepted /\ q.proc = "running" /\ q.sent = q.bodyLen
                 /\ ~ENABLED PipelineStep(r))
                => (q.stdinEnded /\ q.stdin = BodyOf(q))

C7_Witness ==
  \E r \in Reqs :
    /\ req[r].bodyLen >= 2 /\ req[r].decidedBy = "accept"
    /\ req[r].heldAtAccept >= 1
    /\ req[r].stdinEnded /\ req[r].stdin = BodyOf(req[r])

\* C8: the status that was committed with the headers is never replaced, an
\* ended response has its headers sent, and the handler paths of a request
\* call response.end() at most once.
C8_HeadersCommittedOnce ==
  \A r \in Reqs :
    LET q == req[r] IN
      /\ q.headersSent => q.status = q.sentStatus
      /\ q.ended => q.headersSent
      /\ q.endCalls <= 1

C8_Witness ==
  \E r \in Reqs :
    /\ req[r].route = "rpc" /\ req[r].proc = "closed" /\ req[r].exit = 1
    /\ req[r].sentStatus = 200 /\ req[r].ended /\ req[r].endCalls = 0

\* C9: the steps of an advertisement or RPC request.
Stage(x) ==
  CASE x \in {"auth_ok", "auth_fail"} -> 1
    [] x \in {"access_ok", "access_missing", "access_fail"} -> 2
    [] x \in {"mkdir", "mkdir_fail", "init", "init_fail"} -> 3
    [] x \in {"emit_info", "emit_fetch", "emit_push", "emit_head"} -> 4
    [] x = "spawn" -> 5
    [] x = "stream" -> 6
    [] OTHER -> 0

Fails(x) == x \in {"auth_fail", "access_fail", "mkdir_fail", "init_fail"}

\* a step that failed is the last step of the request
FailureStops(tr) ==
  \A i \in 1..Len(tr) :
    Fails(tr[i]) => \A j \in (i + 1)..Len(tr) : Stage(tr[j]) = 0

\* each step happens only after the step before it succeeded
StepsNeedSuccess(tr) ==
  /\ BeforeIfAny(tr, "emit_info", "spawn") \/ BeforeIfAny(tr, "emit_fetch", "spawn")
       \/ BeforeIfAny(tr, "emit_push", "spawn")
  /\ BeforeIfAny(tr, "spawn", "stream")
  /\ \A e \in {"emit_info", "emit_fetch", "emit_push"} :
       BeforeIfAny(tr, "access_ok", e) \/ BeforeIfAny(tr, "init", e)
  /\ BeforeIfAny(tr, "mkdir", "init")
  /\ BeforeIfAny(tr, "access_missing", "mkdir")
  /\ options.authenticate =>
       \A x \in {"access_ok", "access_missing", "access_fail"} :
         BeforeIfAny(tr, "auth_ok", x)

\* headers are written after the gate decision when there is one
HeadersAfterDecision(tr) ==
  /\ BeforeIfAny(tr, "accepted", "headers") \/ ~Has(tr, "accepted")
  /\ BeforeIfAny(tr, "rejected", "headers") \/ ~Has(tr, "rejected")

\* C9 as claimed: every step of a later stage comes after every step of an
\* earlier stage (authenticate, existence/create, emission, spawn, stream), a
\* failed step ends the request, and headers follow the gate decision.
C9_StrictStepOrder ==
  \A r \in Reqs :
    LET tr == req[r].trace IN
      req[r].route \in {"info", "rpc"}
        => /\ \A i \in 1..Len(tr) : \A j \in (i + 1)..Len(tr) :
                (Stage(tr[i]) # 0 /\ Stage(tr[j]) # 0)
                  => Stage(tr[i]) <= Stage(tr[j])
           /\ FailureStops(tr) /\ StepsNeedSuccess(tr) /\ HeadersAfterDecision(tr)

\* C9 as amended: the same order, except that the type event of an
\* advertisement may be emitted after the spawn (an info listener accepted
\* inline, so handleAccept ran before emit(type)); the info event, and the
\* single event of an RPC, always precede the spawn.
C9_StepOrder ==
  \A r \in Reqs :
    LET tr == req[r].trace IN
      req[r].route \in {"info", "rpc"}
        => /\ \A i \in 1..Len(tr) : \A j \in (i + 1)..Len(tr) :
                (Stage(tr[i]) # 0 /\ Stage(tr[j]) # 0)
                  => \/ Stage(tr[i]) <= Stage(tr[j])
                     \/ /\ req[r].route = "info"
                        /\ tr[i] = "spawn" /\ tr[j] \in {"emit_fetch", "emit_push"}
                        /\ BeforeIfAny(tr, "emit_info", "spawn")
           /\ FailureStops(tr) /\ StepsNeedSuccess(tr) /\ HeadersAfterDecision(tr)

C9_Witness ==
  \E r \in Reqs :
    LET tr == req[r].trace IN
      /\ options.authenticate /\ req[r].route = "info"
      /\ \A x \in {"auth_ok", "access_missing", "mkdir", "init", "emit_info",
                   "emit_fetch", "spawn", "stream"} : Has(tr, x)
      /\ First(tr, "spawn") < First(tr, "emit_fetch")

\* C10: a request whose type event (fetch, push or head) had no listener when
\* it was emitted gets its gate ACCEPTED by the handler itself, unless a
\* listener of another event decided the gate.
C10_AutoAcceptWithoutTypeListener ==
  \A r \in Reqs :
    (Emitted(req[r]) /\ Returned(req[r]) /\ req[r].atEmit[2] = 0)
      ~> \/ Gate(req[r]) = "ACCEPTED" /\ req[r].decidedBy = "auto"
         \/ req[r].decidedBy \in {"accept", "reject"}

\* C11: a request whose gate event had at least one listener (on() or once())
\* at the moment it was emitted is never accepted by the handler itself: its
\* gate is decided only by a listener's accept() or reject().
C11_ListenerBlocksAutoAccept ==
  \A r \in Reqs :
    LET q == req[r] IN
      (Emitted(q) /\ Returned(q) /\ q.atEmit[1] + q.atEmit[2] > 0)
        => q.decidedBy # "auto"

\* C12: a request whose pathname is /<name>/<action> with a non-empty name
\* and action one of info/refs, git-upload-pack, git-receive-pack, HEAD is
\* handled by the one handler of that action with that name; every other
\* request is answered 404 "Not Found" and nothing else happens for it: no
\* authenticator call, no existence check, no event, no subprocess.
RegexMatches(u) ==
  \E k \in 1..(Len(u) - 1), a \in Actions : SubSeq(u, k + 1, Len(u)) = ActionSegs(a)

HandlerOf(a) == CASE a = "info/refs" -> "info"
                  [] a = "HEAD"      -> "head"
                  [] OTHER           -> "rpc"

C13_RejectResponse ==
  \A r \in Reqs :
    LET q == req[r] IN
      q.decidedBy = "reject"
        => /\ q.ended /\ q.headersSent
           /\ q.sentStatus = (IF q.route = "rpc" THEN 500 ELSE 403)
           /\ \A h \in q.headers :
                h[1] = "Content-Type" => h[2] = <<"text/plain">>
           /\ <<"Content-Type", <<"text/plain">>>> \in q.headers
           /\ q.body = <<IF q.firstArg = Omitted THEN "rejected" ELSE q.firstArg>>
           /\ q.spawned = 0 /\ q.proc = "none" /\ ~Has(q.trace, "spawn")

C13_Witness ==
  \E r \in Reqs :
    /\ req[r].route = "rpc" /\ req[r].decidedBy = "reject"
    /\ req[r].firstArg = Omitted /\ req[r].body = <<"rejected">>
    /\ req[r].sentStatus = 500 /\ req[r].laterCall

\* C14: a request that reaches the existence check (its service parameter
\* was valid and authentication passed) on a path that is not accessible,
\* other than an advertisement with autoCreate enabled, is answered 404
\* "Repository not found" and returns: no gate event, no directory or
\* repository created, no subprocess. RPC and HEAD requests get this answer
\* whether autoCreate is set or not.
PastExistenceCheck(q) ==
  /\ Matched(q) /\ q.pc \notin {"idle", "auth", "access"}
  /\ q.sentStatus \notin {400, 401}

EmitLabels == {"emit_info", "emit_fetch", "emit_push", "emit_head"}

\* the handler's state when it reaches the emission, history aside
AtGate(q) ==
  [IdleReq EXCEPT !.method = q.method,
                  !.url = q.url, !.route = q.route, !.name = q.name,
                  !.path = q.path, !.service = q.service, !.svc = q.svc,
                  !.pc = "emit"]

C15_AutoCreateThenGate ==
  \A r \in Reqs :
    LET q  == req[r]
        tr == q.trace
    IN  Has(tr, "access_missing")
          => /\ q.route = "info" /\ options.autoCreate
             /\ options.authenticate => BeforeIfAny(tr, "auth_ok", "access_missing")
             /\ \A e \in EmitLabels :
                  Has(tr, e) => /\ Has(tr, "mkdir") /\ Has(tr, "init")
                                /\ First(tr, "access_missing") < First(tr, "mkdir")
                                /\ First(tr, "mkdir") < First(tr, "init")
                                /\ First(tr, "init") < First(tr, e)
             /\ Has(tr, "init") => (q.path \in dirs /\ q.path \in bare)
             /\ q.pc = "emit"
                  => /\ Has(tr, "init")
                     /\ [q EXCEPT !.trace = <<>>, !.errs = 0] = AtGate(q)

C15_Witness ==
  \E r \in Reqs :
    /\ req[r].name = <<"r2">> /\ Has(req[r].trace, "init")
    /\ Has(req[r].trace, "emit_info") /\ Has(req[r].trace, "emit_push")
    /\ req[r].decidedBy = "accept" /\ req[r].proc = "closed"
    /\ req[r].sentStatus = 200 /\ req[r].path \in bare

\* C16: a request whose auto-create failed (mkdir failed, or git init --bare
\* failed or could not be spawned) has, once its handler is done, been
\* answered with status 500 and an ended response, with no gate event and
\* no service subprocess.
C16_CreateFailureIs500 ==
  \A r \in Reqs :
    LET q == req[r] IN
      ((Has(q.trace, "mkdir_fail") \/ Has(q.trace, "init_fail"))
         /\ q.pc \in {"returned", "crashed"})
        => /\ q.ended /\ q.sentStatus = 500
           /\ \A e \in EmitLabels : ~Has(q.trace, e)
           /\ q.spawned = 0

\* C17: with an authenticator configured, a request carrying an
\* Authorization header that parseBasicAuth refuses (type other than Basic,
\* or no credentials part) is answered 401 "Authentication failed" with
\* WWW-Authenticate: Basic realm="Git Server", whatever the authenticator
\* answers for missing credentials.
C17_MalformedHeaderIs401 ==
  \A r \in Reqs :
    LET q == req[r] IN
      (options.authenticate /\ Has(q.trace, "hdr_malformed") /\ q.headersSent)
        => /\ q.sentStatus = 401
           /\ q.body = <<"Authentication failed">>
           /\ <<"WWW-Authenticate", <<"Basic realm=\"Git Server\"">>>> \in q.headers

\* C18: an advertisement request that has been answered carries status 400
\* unless its service parameter is exactly git-upload-pack or
\* git-receive-pack: with body "service parameter required" when there is no
\* parameter and "Invalid service" for any other value, and then without an
\* authenticator call, an event or a subprocess.
ExactServices == { <<"git-", "upload-pack">>, <<"git-", "receive-pack">> }

C18_ServiceParameterExact ==
  \A r \in Reqs :
    LET q == req[r] IN
      (q.route = "info" /\ q.headersSent)
        => IF q.service \in ExactServices THEN q.sentStatus # 400
           ELSE /\ q.sentStatus = 400 /\ q.ended
                /\ q.body = <<IF q.service \in {NoParam, <<>>}
                               THEN "service parameter required"
                               ELSE "Invalid service">>
                /\ AuthCalls(q) = 0
                /\ \A e \in EmitLabels : ~Has(q.trace, e)
                /\ q.spawned = 0

\* C19: every accepted request answered with status 200 carries the three
\* headers Cache-Control: no-cache, max-age=0, must-revalidate, Expires:
\* Fri, 01 Jan 1980 00:00:00 GMT and Pragma: no-cache.
C19_NoCacheHeaders ==
  \A r \in Reqs :
    LET q == req[r] IN
      (q.accepted /\ q.sentStatus = 200)
        => /\ <<"Cache-Control", <<"no-cache, max-age=0, must-revalidate">>>>
                \in q.headers
           /\ <<"Expires", <<"Fri, 01 Jan 1980 00:00:00 GMT">>>> \in q.headers
           /\ <<"Pragma", <<"no-cache">>>> \in q.headers

\* C20: a request that has gone through its emission has emitted its type
\* event exactly once (emit_fetch for upload-pack, emit_push for
\* receive-pack, emit_head for HEAD) and no other type event; an
\* advertisement has also emitted info exactly once, before the type event,
\* and RPC and HEAD requests never emit info. A request that has not
\* reached the gate has emitted nothing.
TypeLabel(q) ==
  IF q.route = "head" THEN "emit_head"
  ELSE IF q.svc = "receive-pack" THEN "emit_push" ELSE "emit_fetch"

ReachedGate(q) ==
  Matched(q) /\ q.pc = "returned"
    /\ (Has(q.trace, "access_ok") \/ Has(q.trace, "init"))

C20_GateEventsOnceInOrder ==
  \A r \in Reqs :
    LET q  == req[r]
        tr == q.trace
    IN  IF ReachedGate(q)
        THEN /\ Count(tr, TypeLabel(q)) = 1
             /\ \A e \in EmitLabels \ {TypeLabel(q), "emit_info"} : ~Has(tr, e)
             /\ IF q.route = "info"
                THEN /\ Count(tr, "emit_info") = 1
                     /\ First(tr, "emit_info") < First(tr, TypeLabel(q))
                ELSE ~Has(tr, "emit_info")
        ELSE \A e \in EmitLabels : ~Has(tr, e)

C20_Witness ==
  \E r \in Reqs :
    /\ req[r].route = "info" /\ req[r].svc = "receive-pack"
    /\ req[r].atEmit[1] = 1 /\ req[r].decidedBy = "reject"
    /\ Has(req[r].trace, "emit_info") /\ Has(req[r].trace, "emit_push")

\* C21: the body of an accepted advertisement is the pkt-line banner (the 4
\* hex digits of the length, "# service=git-<svc>\n", "0000") followed by
\* the stdout chunks of the subprocess in the order it wrote them, and the
\* body of an accepted RPC is those chunks alone; the only other body of an
\* accepted request is the 500 diagnostic of an RPC whose git could not be
\* spawned, which holds no stdout.
BannerText(svc) ==
  (IF svc = "upload-pack" THEN <<"0", "0", "1", "e">> ELSE <<"0", "0", "1", "f">>)
    \o <<"# service=git-", svc, "\n", "0000">>

StdoutWritten(q) == [i \in 1..q.out |-> OutToks[i]]

C30_ResponseEndsAfterSubprocess ==
  \A r \in Reqs :
    (req[r].accepted /\ req[r].route \in {"info", "rpc"}
       /\ req[r].proc = "closed")
      ~> req[r].ended

\* C22: for every s with length(s) + 4 <= 0xffff, packSideband(s) is four
\* lowercase hexadecimal digits whose value is length(s) + 4, followed by s
\* unchanged ('' gives 0004, 'test' gives 0008test); the banner of the
\* advertisement starts with the prefix packSideband gives a packet of the
\* same length.
HexDigit(ch) == (CHOOSE i \in 1..16 : HexChars[i] = ch) - 1

HexValue(ds) ==
  HexDigit(ds[1]) * 4096 + HexDigit(ds[2]) * 256 + HexDigit(ds[3]) * 16 + HexDigit(ds[4])

C22_PackSidebandPrefix ==
  /\ (call.fn = "packSideband" /\ Len(call.arg) + 4 <= 65535)
       => /\ Len(call.result) = Len(call.arg) + 4
          /\ \A i \in 1..4 : \E j \in 1..16 : call.result[i] = HexChars[j]
          /\ HexValue(call.result) = Len(call.arg) + 4
          /\ SubSeq(call.result, 5, Len(call.result)) = call.arg
          /\ call.arg = <<>> => call.result = <<"0", "0", "0", "4">>
          /\ call.arg = <<"t", "e", "s", "t">>
               => call.result = <<"0", "0", "0", "8", "t", "e", "s", "t">>
  /\ \A svc \in {"upload-pack", "receive-pack"} :
       LET plen == StrLen("# service=git-") + StrLen(svc) + StrLen("\n")
       IN  SubSeq(Banner(svc), 1, 4) = SubSeq(packSideband(Repeat("x", plen)), 1, 4)

C22_Witness ==
  /\ call.fn = "packSideband" /\ Len(call.arg) = 65531
  /\ SubSeq(call.result, 1, 4) = <<"f", "f", "f", "f">>

\* C29: for a Basic header whose decoded credentials hold a colon, the
\* authenticator receives as username the text before the first colon and
\* as password all the text after the first colon, further colons included.
FirstColon(d) == CHOOSE k \in 1..Len(d) : d[k] = ":" /\ \A j \in 1..(k - 1) : d[j] # ":"

C29_SplitOnFirstColon ==
  call.fn = "parseBasicAuth" =>
    LET d == Base64Decode(call.arg[2]) IN
      Has(d, ":") =>
        /\ call.result[1] = SubSeq(d, 1, FirstColon(d) - 1)
        /\ call.result[2] = SubSeq(d, FirstColon(d) + 1, Len(d))

\* C27: close() on a server on which listen() was never called emits one
\* 'error' event when an error listener is registered and none otherwise,
\* and leaves the server not listening and every request untouched; no
\* other step emits an 'error' event outside of a request.
C27_CloseBeforeListen ==
  [][ /\ (Close /\ server = "none")
           => /\ serverErrors' = serverErrors +
                   (IF listenerCount(listeners, "error") > 0 THEN 1 ELSE 0)
              /\ server' = "none" /\ req' = req
      /\ serverErrors' # serverErrors
           => /\ server = "none" /\ listenerCount(listeners, "error") > 0
              /\ serverErrors' = serverErrors + 1
    ]_vars

C27_Witness ==
  /\ server = "none" /\ serverErrors = 1
  /\ listenerCount(listeners, "error") = 0

\* C28: while an error listener is registered with on(), an accepted request
\* has emitted one 'error' event for each stderr chunk of its git subprocess
\* and one for a non-zero exit of the subprocess after the response headers
\* were sent.
ExitedNonZero(q) == q.proc = "closed" /\ q.exit > 0 /\ q.headersSent

C28_AsyncErrorsAreEmitted ==
  \A r \in Reqs :
    LET q == req[r] IN
      (q.accepted /\ q.route \in {"info", "rpc"})
        => (listeners["error"].on > 0
              => q.errs = q.errChunks + (IF ExitedNonZero(q) THEN 1 ELSE 0))

\* C26: an accepted RPC whose git subprocess has exited with a non-zero
\* code is answered 500 when the subprocess wrote no stdout, and stays 200
\* with the response ended when some stdout had been sent.
C26_NonZeroExitStatus ==
  \A r \in Reqs :
    LET q == req[r] IN
      (q.route = "rpc" /\ q.accepted /\ q.proc = "closed" /\ q.exit > 0)
        => IF q.out = 0 THEN q.sentStatus = 500
           ELSE q.sentStatus = 200 /\ q.ended

\* a push that ran to its end: accepted, the whole body given to git
\* receive-pack, which exited with code 0
PushCompleted(q) ==
  /\ q.route = "rpc" /\ q.svc = "receive-pack" /\ q.accepted
  /\ q.stdinEnded /\ q.stdin = BodyOf(q)
  /\ q.proc = "closed" /\ q.exit = 0

\* the command creates or updates a tag
IsTagUpdate(c) == c.ref[1] = "refs/tags/" /\ c.new # ZeroId

\* C23: when an accepted push has completed, every command of its body that
\* creates or updates refs/tags/<name> has had a tag event with the repository
\* of the request and version <name>, whatever the chunks the body arrived in
\* and whenever accept() was called.
C23_TagEventForEveryTagUpdate ==
  \A r \in Reqs :
    LET q == req[r] IN
      PushCompleted(q)
        => \A i \in 1..Len(q.payload) :
             LET c == Commands[q.payload[i].cmd] IN
               (IsTagUpdate(c) /\ q.payload[i].part \in {0, 1})
                 => \E j \in 1..Len(q.tags) :
                      /\ q.tags[j].repo = q.name
                      /\ q.tags[j].version = c.ref[2]

\* C24: no tag event carries the all-zero object id as its commit, that is,
\* a command that deletes a tag emits no tag event.
C24_NoTagEventForDeletion ==
  \A r \in Reqs :
    \A j \in 1..Len(req[r].tags) : req[r].tags[j].commit # ZeroId

\* what a push shows: its gate, its response, and the body on its way to git
PushView(q) ==
  [ gate |-> Gate(q), status |-> q.status, sentStatus |-> q.sentStatus,
    headers |-> q.headers, headersSent |-> q.headersSent, body |-> q.body,
    ended |-> q.ended, reqbuf |-> q.reqbuf, pass |-> q.pass,
    passEnded |-> q.passEnded, resumed |-> q.resumed,
    stdin |-> q.stdin, stdinEnded |-> q.stdinEnded, proc |-> q.proc ]

\* C25: a call of accept() or reject() on a tagInfo leaves the gate of the
\* request, its response (status, headers, body, ended or not) and the body
\* bytes on their way to the git subprocess as they were.
C25_TagCallsAreAdvisory ==
  [][\A r \in Reqs, c \in TagCalls :
       TagCall(r, c) => PushView(req'[r]) = PushView(req[r])]_vars

\* a tag listener called reject() and then accept() on the tagInfo of a
\* push, and the push completed with a 200
C25_Witness ==
  \E r \in Reqs :
    /\ req[r].tagCalls = <<"reject", "accept">>
    /\ PushCompleted(req[r])
    /\ req[r].sentStatus = 200 /\ req[r].ended
    /\ Len(req[r].tags) = 1

\* the tag detection was attached before request emitted any chunk, and the
\* whole body has been emitted since
SniffedWholeBody(q) ==
  /\ q.route = "rpc" /\ q.sniffing /\ q.heldAtAccept = 0
  /\ q.sent = q.bodyLen /\ q.reqbuf = <<>>

\* the tag events emitted for command c
EventsFor(q, c) ==
  { j \in 1..Len(q.tags) :
      q.tags[j].commit = c.new /\ q.tags[j].version = c.ref[2] }

\* C31: when the tag detection has read the whole body of a push, every
\* command of the command list that creates or updates a tag has exactly one
\* tag event, whether its text came in one chunk or was cut across two
\* consecutive chunks.
C31_OneEventPerTagCommand ==
  \A r \in Reqs :
    LET q == req[r] IN
      SniffedWholeBody(q)
        => \A i \in 1..Len(q.payload) :
             LET c == Commands[q.payload[i].cmd] IN
               (IsTagUpdate(c) /\ q.payload[i].part \in {0, 1})
                 => Cardinality(EventsFor(q, c)) = 1

\* C32: a push whose command list names no tag emits no tag event, whatever
\* its packfile contains: the chunks from the start of the packfile on are
\* not scanned.
C32_NoTagEventFromPackfile ==
  \A r \in Reqs :
    LET q == req[r] IN
      (\A i \in 1..Len(q.payload) :
         InCommandList(q.payload[i])
           => Commands[q.payload[i].cmd].ref[1] # "refs/tags/")
        => q.tags = <<>>

\* C36: a request on the HEAD route never passes through authenticate(): it
\* has no authentication step and no 401, and once handleHead has returned
\* its response is fixed by the existence of the repository and by the gate
\* alone (404 when missing, 200 when accepted, 403 when rejected), so by 200
\* when the repository exists and no listener is on 'head'.
C36_HeadSkipsAuthentication ==
  \A r \in Reqs :
    LET q == req[r] IN
      q.route = "head"
        => /\ AuthCalls(q) = 0 /\ ~Has(q.trace, "hdr_malformed")
           /\ q.status # 401
           /\ \A h \in q.headers : h[1] # "WWW-Authenticate"
           /\ q.pc = "returned"
                => /\ Has(q.trace, "access_fail")
                      => (q.sentStatus = 404 /\ Gate(q) = "PENDING")
                   /\ Has(q.trace, "access_ok")
                      => /\ Gate(q) = "ACCEPTED" => q.sentStatus = 200
                         /\ Gate(q) = "REJECTED" => q.sentStatus = 403
                         /\ Gate(q) = "PENDING" => ~q.headersSent
                         /\ q.atEmit[2] = 0 => Gate(q) = "ACCEPTED"

\* with an authenticator configured, a HEAD request on an existing repository
\* with no listener on 'head' has been answered 200
C36_Witness ==
  \E r \in Reqs :
    /\ options.authenticate
    /\ req[r].route = "head" /\ req[r].atEmit[2] = 0
    /\ req[r].ended /\ req[r].sentStatus = 200

\* C39: an advertisement whose gate is ACCEPTED has its headers sent with
\* status 200 (the banner is written before git is spawned), and this stays so
\* whatever the subprocess does: the status is never 500.
C39_AcceptedAdvertisementIs200 ==
  \A r \in Reqs :
    LET q == req[r] IN
      (q.route = "info" /\ q.accepted)
        => /\ q.headersSent /\ q.sentStatus = 200 /\ q.status = 200
           /\ IsPrefix(Banner(q.svc), q.body)

\* an accepted advertisement whose subprocess could not be spawned, or exited
\* with a non-zero code, after which handleAccept went on: still 200
C39_Witness ==
  \E r \in Reqs :
    /\ req[r].route = "info" /\ req[r].accepted
    /\ req[r].proc \in {"errored", "closed"} /\ req[r].exit \in {1, -2}
    /\ ~req[r].awaiting
    /\ req[r].sentStatus = 200

\* the first decision on the gate of an advertisement was a reject() made by
\* an info listener, that is, before the type event was emitted
InfoListenerRejected(q) ==
  /\ q.route = "info" /\ Has(q.trace, "rejected")
  /\ Has(q.trace, "accepted")
       => First(q.trace, "rejected") < First(q.trace, "accepted")
  /\ Has(q.trace, TypeLabel(q))
       => First(q.trace, "rejected") < First(q.trace, TypeLabel(q))

\* C38: the info event and the type event of an advertisement carry the same
\* gate. When an info listener has rejected with m, the type event is still
\* emitted (once), and whatever its listeners call, the response is 403 with
\* body m and no subprocess is spawned.
C38_SharedGateFirstDecisionWins ==
  \A r \in Reqs :
    LET q == req[r] IN
      InfoListenerRejected(q)
        => /\ Count(q.trace, TypeLabel(q)) = 1
           /\ Gate(q) = "REJECTED" /\ q.decidedBy = "reject"
           /\ q.ended /\ q.sentStatus = 403
           /\ q.body = <<IF q.firstArg = Omitted THEN "rejected"
                         ELSE q.firstArg>>
           /\ q.spawned = 0 /\ q.proc = "none"

\* an info listener and a type listener were both registered, the first
\* decision was reject("nope"), accept() was called afterwards, and the
\* response is 403 "nope"
C38_Witness ==
  \E r \in Reqs :
    /\ InfoListenerRejected(req[r])
    /\ req[r].atEmit = <<1, 1>> /\ req[r].laterCall
    /\ req[r].firstArg = "nope" /\ req[r].body = <<"nope">>
    /\ req[r].sentStatus = 403 /\ req[r].spawned = 0

\* a listener acts on the gate object of request r
GateCall(r) ==
  \/ \E c \in Calls : LateCall(r, c)
  \/ \E cs1 \in CallSeqs, cs2 \in CallSeqs : EmitGate(r, cs1, cs2)

\* C34: every request has a gate of its own. The accept() and reject() calls
\* made on the gate object of one request, inside its listeners or later,
\* leave every other request as it was (gate, response, subprocesses), and a
\* request that is accepted has spawned exactly one subprocess of its own.
C34_GatesAreIndependent ==
  /\ [](\A r \in Reqs :
          (req[r].accepted /\ req[r].route \in {"info", "rpc"})
            => req[r].spawned = 1)
  /\ [][\A r \in Reqs :
          GateCall(r) => \A x \in Reqs \ {r} : req'[x] = req[x]]_vars

\* two pushes to the same repository were at their gates together; one was
\* rejected and has no subprocess, the other accepted later and has one
C34_Witness ==
  \E r \in Reqs, x \in Reqs :
    /\ r # x /\ req[r].url = req[x].url /\ req[r].route = "rpc"
    /\ req[r].handed /\ req[x].handed
    /\ req[r].decidedBy = "reject" /\ req[r].sentStatus = 500
    /\ req[r].spawned = 0
    /\ req[x].decidedBy = "accept" /\ req[x].spawned = 1
    /\ req[x].sentStatus # 500

\* C37: the handler of a request is chosen by its URL alone. Two requests
\* with the same URL are given to the same handler with the same repository
\* and service, whatever their methods, and have the same response once both
\* handlers have returned with the same gate decision and their subprocesses
\* have done the same.
C37_DispatchIgnoresMethod ==
  \A r \in Reqs, x \in Reqs :
    LET q == req[r]
        p == req[x]
    IN  (q.pc # "idle" /\ p.pc # "idle" /\ q.url = p.url
           /\ q.service = p.service)
          => /\ q.route = p.route /\ q.name = p.name /\ q.path = p.path
             /\ q.svc = p.svc
             /\ (q.pc = "returned" /\ p.pc = "returned"
                   /\ q.decidedBy = p.decidedBy /\ q.firstArg = p.firstArg
                   /\ q.trace = p.trace /\ q.proc = p.proc /\ q.exit = p.exit
                   /\ q.outEnded = p.outEnded /\ q.awaiting = p.awaiting)
                  => /\ q.status = p.status /\ q.headers = p.headers
                     /\ q.body = p.body /\ q.spawned = p.spawned

\* a GET on /r1/git-receive-pack ran the RPC handler and spawned
\* receive-pack, and a POST on /r1/info/refs ran the advertisement handler
C37_Witness ==
  \E r \in Reqs, x \in Reqs :
    /\ req[r].method = "GET" /\ req[r].url = <<"r1", "git-receive-pack">>
    /\ req[r].route = "rpc" /\ req[r].svc = "receive-pack"
    /\ req[r].spawned = 1
    /\ req[x].method = "POST" /\ req[x].url = <<"r1", "info", "refs">>
    /\ req[x].route = "info" /\ req[x].spawned = 1
    /\ IsPrefix(Banner(req[x].svc), req[x].body)

\* what holds of the timer-based gate in every state
TimedGateInvariant ==
  LET t == timedReq IN
    /\ t.autoAccepts <= 1
    /\ t.decidedBy = "timer"
         => (t.autoAccepts = 1 /\ t.decidedAt = TimeoutTicks /\ t.accepted)
    /\ t.decidedBy \in {"accept", "reject"}
         => (t.autoAccepts = 0 /\ t.decidedAt <= TimeoutTicks)
    /\ t.spawned = (IF t.accepted THEN 1 ELSE 0)
    /\ t.pc = "resolved" => TimedGate(t) # "PENDING"
    /\ (t.pc # "idle" /\ t.now > TimeoutTicks) => TimedGate(t) # "PENDING"

\* C33: in the handlers that wait on timers, the timeout auto-accepts a gate
\* that is still undecided at 1000 ms, once; a gate decided before never gets
\* an auto-accept; the promise of the handler is resolved only with a decided
\* gate; and every handler that waits is resolved in the end.
C33_TimerAutoAccept ==
  /\ []TimedGateInvariant
  /\ (timedReq.pc = "waiting") ~> (timedReq.pc = "resolved")

\* a listener received the info object and never called it: the timeout
\* accepted at 1000 ms, the promise is resolved and the interval is cleared
C33_Witness ==
  /\ timedReq.handed /\ timedReq.decidedBy = "timer"
  /\ timedReq.pc = "resolved" /\ timedReq.spawned = 1
  /\ ~timedReq.checkDone /\ ~timedReq.timeoutId

\* the gate of the Service is decided and the git process it spawned, if
\* any, has terminated
ServiceDone(v) ==
  /\ v.pc = "executed"
  /\ \/ v.rejected
     \/ v.accepted /\ v.proc = "closed"

\* C35: once the gate of a Service is decided and the git process it spawned
\* has terminated, the promise of execute() is settled in the end, whether
\* the decision was made inside the listener or later.
C35_ExecuteSettles ==
  ServiceDone(serviceObj) ~> (serviceObj.settled # "pending")
====
